---- MODULE Spec2Model ----
(***************************************************************************)
(* A model of the crawl-and-analyze engine of src/site_analyzer.py:        *)
(* TechnicalAnalyzer (check_url, validate_sitemap) and SiteCrawler         *)
(* (extract_metadata, analyze_structured_data, check_indexability,         *)
(* analyze_internal_links, identify_orphan_pages, crawl_site).             *)
(*                                                                         *)
(* Python dictionaries are functions whose DOMAIN is the set of keys,      *)
(* lists are sequences, sets are sets.  A defaultdict is a function read   *)
(* through Get, which yields the default for a missing key.                *)
(***************************************************************************)
EXTENDS Integers, Sequences, FiniteSets, TLC

VARIABLES
    \* ---- the site being crawled (environment, fixed during a crawl) ----
    site,            \* page URL -> the hrefs of its <a> elements, in document order
    link_net,        \* URL -> what a HEAD request for it yields during the crawl
    \* ---- SiteCrawler ----
    internal_links,  \* self.internal_links : url -> set of in-scope targets
    inbound_links,   \* self.inbound_links  : url -> set of pages linking to it
    page_depths,     \* self.page_depths    : url -> depth
    orphan_pages,    \* self.orphan_pages
    \* ---- crawl_site / main ----
    visited,         \* the visited set threaded through crawl_site
    pending,         \* the linked pages still to be iterated: [url, parent, depth]
    results,         \* url -> shape of the result crawl_site returned for it
    linked_pages,    \* url -> results["linked_pages"] of its result, as URLs
    summaries,       \* url -> the two issue summaries of its result
    outputs,         \* main after crawl_site returned: "none" | "written" | "KeyError"
    pc,              \* "seed" | "linked" | "done"
    first_found_on,  \* url -> the page whose link created its page_depths entry
    fetched,         \* the URLs passed to get_page_content
    fetch_count,     \* url -> the number of get_page_content calls made on it
    calls,           \* the crawl_site calls made: [url, depth, parent, skipped, ...]
    \* ---- TechnicalAnalyzer ----
    broken_links,    \* self.broken_links   : status key or "error" -> list of entries
    redirect_chains, \* self.redirect_chains: url -> chain record
    redirect_loops,  \* self.redirect_loops
    sitemap_issues,  \* self.sitemap_issues : list of diagnostics
    \* ---- a sequence of check_url calls ----
    probes,          \* number of check_url calls made
    last_probe,      \* the last check_url call: its arguments, outcome and return value
    \* ---- validate_sitemap ----
    sm_docs,         \* sitemap URL -> what a GET of it yields (environment)
    sm_stack,        \* the active validate_sitemap calls that iterate an index
    sm_call,         \* the domain validate_sitemap is being called with, or NoCall
    sm_visited,      \* visited_sitemaps of the call tree
    sm_fetches,      \* sitemap URL -> number of GETs issued for it
    sm_validated,    \* the urlsets whose entries were validated: [url, entries]
    sm_log,          \* one record per sitemap GET: what the call did with the answer
    \* ---- SiteCrawler: page analysis ----
    title_tracking,     \* self.title_tracking     : title -> list of urls
    meta_desc_tracking, \* self.meta_desc_tracking : description -> list of urls
    content_tracking,   \* self.content_tracking   : content hash -> list of urls
    crawl_issues,       \* self.crawl_issues       : issue name -> count
    canonical_issues,   \* self.canonical_issues   : issue name -> count
    structured_data,    \* self.structured_data (the schema catalog)
    robots_txt_content, \* self.robots_txt_content : the lines of robots.txt
    analysed,           \* the extract_metadata calls made: [url, page, raised, ret, ...]
    verdicts            \* the check_indexability calls made: [url, page, verdict]

crawlVars == <<site, internal_links, inbound_links, page_depths, orphan_pages,
               visited, pending, results, pc, first_found_on, fetched, calls,
               linked_pages, outputs, link_net, summaries, fetch_count>>

techVars == <<broken_links, redirect_chains, redirect_loops, sitemap_issues>>

probeVars == <<probes, last_probe>>

sitemapVars == <<sm_docs, sm_stack, sm_call, sm_visited, sm_fetches, sm_validated,
                 sm_log>>

pageVars == <<title_tracking, meta_desc_tracking, content_tracking, crawl_issues,
              canonical_issues, structured_data, robots_txt_content, analysed,
              verdicts>>

vars == <<crawlVars, techVars, probeVars, sitemapVars, pageVars>>

(***************************************************************************)
(* Dictionaries                                                            *)
(***************************************************************************)
EmptyMap == <<>>

Put(m, k, v) == [x \in DOMAIN m \cup {k} |-> IF x = k THEN v ELSE m[x]]

\* defaultdict(set).__getitem__ as a read
Get(m, k) == IF k \in DOMAIN m THEN m[k] ELSE {}

\* defaultdict(set)[k].add(v)
AddTo(m, k, v) == Put(m, k, Get(m, k) \cup {v})

\* defaultdict(set)[k] evaluated for its value: the key is created
Touch(m, k) == Put(m, k, Get(m, k))

\* defaultdict(set)[k] evaluated for every k of keys
TouchKeys(m, keys) == [x \in DOMAIN m \cup keys |-> Get(m, x)]

Range(s) == {s[i] : i \in DOMAIN s}

\* defaultdict(int).__getitem__ / dict.get(k, 0) as a read
Count(m, k) == IF k \in DOMAIN m THEN m[k] ELSE 0

(***************************************************************************)
(* URLs.  A URL is a string; Host gives urlparse(url).netloc and Scheme    *)
(* gives urlparse(url).scheme.                                             *)
(***************************************************************************)
Seed == "https://example.com/"

PageA == "https://example.com/a"

PageB == "https://example.com/b"

Pages == {Seed, PageA, PageB}

External == "https://other.org/"

Mailto == "mailto:info@example.com"

Targets == Pages \cup {External, Mailto}

LoopUrl == "https://example.com/loop"

RootDomain == "example.com"

OtherDomain == "other.org"

\* line 89: f"https://{domain}/sitemap.xml"
SitemapUrl(domain) == "https://" \o domain \o "/sitemap.xml"

RootMap == SitemapUrl(RootDomain)

OtherMap == SitemapUrl(OtherDomain)

LeafPosts == "https://example.com/sitemap-posts.xml"

LeafPages == "https://example.com/sitemap-pages.xml"

SitemapUrls == {RootMap, OtherMap, LeafPosts, LeafPages}

\* hrefs that are not absolute URLs
RelativeHref == "/other-page"

ProtocolRelativeHref == "//other.org/x"

\* pages on the www. variant of the root domain and on the www. variant of
\* that variant
WwwPage == "https://www.example.com/"

WwwWwwPage == "https://www.www.example.com/"

\* an href that urljoin rejects with ValueError ("Invalid IPv6 URL")
Malformed == "http://[bad"

\* a canonical href without a scheme that urlparse rejects with ValueError
\* ("Invalid IPv6 URL")
MalformedCanonical == "//[bad"

\* urlparse(u).netloc
Host(u) == IF u \in Pages \cup {LoopUrl, RootMap, LeafPosts, LeafPages} THEN RootDomain
           ELSE IF u \in {External, OtherMap, ProtocolRelativeHref} THEN OtherDomain
           ELSE IF u = WwwPage THEN "www." \o RootDomain
           ELSE IF u = WwwWwwPage THEN "www.www." \o RootDomain
           ELSE ""

\* u.startswith(('http://', 'https://'))
StartsWithHttp(u) == u \in Pages \cup {External, LoopUrl} \cup SitemapUrls

Scheme(u) == IF u = Mailto THEN "mailto" ELSE "https"

\* the number of <a href> elements the model puts on the whole site
MaxSiteLinks == 3

\* the href lists of one page: at most n links, no href twice
LinkLists(n) == {s \in UNION {[1..k -> Targets] : k \in 0..n} :
                    \A i, j \in DOMAIN s : i # j => s[i] # s[j]}

\* the hrefs of a site that spreads over the www. variants of its domain and
\* has hrefs that do not resolve
ScopeTargets == {PageA, WwwPage, WwwWwwPage, External, Mailto, Malformed}

ScopeLinkLists(n) == {s \in UNION {[1..k -> ScopeTargets] : k \in 0..n} :
                         \A i, j \in DOMAIN s : i # j => s[i] # s[j]}

\* lines 473 and 592: urljoin(url, href) raises
UrljoinRaises(href) == href = Malformed

\* the per-link handler missing: the exception ends the loop over the links
AfterLinkFailureAbort(links) == <<>>

\* lines 496-497 and 609-610: the handler is inside the loop body, so the
\* loop goes on with the links after the failing one
AfterLinkFailure(links) == Tail(links)

\* the links of a page that the loop over its <a> elements gets through
\* without an exception, in document order
RECURSIVE Processed(_)
Processed(links) ==
    IF links = <<>> THEN <<>>
    ELSE IF UrljoinRaises(Head(links)) THEN Processed(AfterLinkFailure(links))
    ELSE <<Head(links)>> \o Processed(Tail(links))

\* not parsed_link.scheme or scheme.startswith(('mailto','tel','javascript'))
Skipped(u) == Scheme(u) \in {"", "mailto", "tel", "javascript"}

\* parsed_link.netloc == domain or parsed_link.netloc == f"www.{domain}"
IsInternal(u, domain) == Host(u) = domain \/ Host(u) = "www." \o domain

(***************************************************************************)
(* URL Prober: TechnicalAnalyzer.check_url                                 *)
(*                                                                         *)
(* net is what session.head(url, allow_redirects=True) does: it raises     *)
(* requests.RequestException (kind "error") or returns a response with a   *)
(* history of redirect responses, a final URL and a status code.           *)
(* ta is the record [broken_links, redirect_chains, redirect_loops].       *)
(***************************************************************************)
ProbeUrls == {LoopUrl, PageA}

\* the number of redirect responses in one response.history
MaxHops == 2

\* the number of check_url calls in one run of the prober
MaxProbes == 2

ProbeStatuses == {200, 404}

NetError == [kind |-> "error", history |-> <<>>, url |-> "", status_code |-> 0]

NoResponse == [kind |-> "none", history |-> <<>>, url |-> "", status_code |-> 0]

Response(history, url, status) ==
    [kind |-> "response", history |-> history, url |-> url, status_code |-> status]

\* response.history of a request for url: empty, or the redirect responses,
\* the first of which answers the request for url itself
Histories(url) ==
    {h \in UNION {[1..n -> ProbeUrls] : n \in 0..MaxHops} : h # <<>> => h[1] = url}

NetOutcomes(url) ==
    {NetError} \cup
    {Response(h, u, st) : h \in Histories(url), u \in ProbeUrls, st \in ProbeStatuses}

\* dictionary keys of broken_links: response.status_code or 'error'
StatusKey(status) == ToString(status)

ErrorKey == "error"

\* defaultdict(list)[k].append(v)
AppendTo(m, k, v) == Put(m, k, (IF k \in DOMAIN m THEN m[k] ELSE <<>>) \o <<v>>)

\* line 52: [r.url for r in response.history] + [response.url]
Chain(net) == net.history \o <<net.url>>

\* the loop test looking only at the URLs that precede the final one
HasLoopBeforeFinal(chain) ==
    Cardinality(Range(SubSeq(chain, 1, Len(chain) - 1))) < Len(chain) - 1

\* line 55: len(set(chain)) < len(chain)
HasLoop(chain) == Cardinality(Range(chain)) < Len(chain)

\* a chain record written for every response, redirected or not
HasRedirectsAlways(net) == TRUE

\* line 51: if len(response.history) > 0
HasRedirects(net) == Len(net.history) > 0

\* lines 51-65: the redirect chain of a response with a non-empty history
RecordChain(ta, url, net) ==
    IF HasRedirects(net)
    THEN LET chain == Chain(net)
             has_loop == HasLoop(chain)
         IN  [ta EXCEPT
                !.redirect_loops = IF has_loop THEN @ + 1 ELSE @,
                !.redirect_chains =
                    Put(@, url, [chain |-> chain,
                                 count |-> Len(net.history),
                                 final_status |-> net.status_code,
                                 has_loop |-> has_loop])]
    ELSE ta

\* self.redirect_chains.get(url, None): <<>> is None
ChainOf(ta, url) ==
    IF url \in DOMAIN ta.redirect_chains THEN <<ta.redirect_chains[url]>> ELSE <<>>

\* the broken-link entry written without looking up the redirect chain
RecordBrokenNoChain(ta, url, is_internal, net) ==
    IF net.status_code >= 400
    THEN [ta EXCEPT !.broken_links =
              AppendTo(@, StatusKey(net.status_code),
                       [url |-> url, is_internal |-> is_internal,
                        redirect_chain |-> <<>>])]
    ELSE ta

\* lines 67-73: a final status >= 400 is a broken link
RecordBroken(ta, url, is_internal, net) ==
    IF net.status_code >= 400
    THEN [ta EXCEPT !.broken_links =
              AppendTo(@, StatusKey(net.status_code),
                       [url |-> url, is_internal |-> is_internal,
                        redirect_chain |-> ChainOf(ta, url)])]
    ELSE ta

\* the RequestException handler recording nothing
RecordErrorSilently(ta, url, is_internal) == ta

\* lines 76-82: the RequestException handler
RecordError(ta, url, is_internal) ==
    [ta EXCEPT !.broken_links =
         AppendTo(@, ErrorKey, [url |-> url, is_internal |-> is_internal,
                                error |-> "RequestException"])]

\* check_url returning None although the response arrived
CheckUrlReturnNoneOnLoop(net) ==
    IF net.kind = "error" \/ HasLoop(Chain(net)) THEN NoResponse ELSE net

\* lines 75 and 82: the value check_url returns
CheckUrlReturn(net) == IF net.kind = "error" THEN NoResponse ELSE net

\* lines 43-82: check_url(url, is_internal) under the network outcome net;
\* the new analyzer state
CheckUrl(ta, url, is_internal, net) ==
    IF net.kind = "error"
    THEN RecordError(ta, url, is_internal)
    ELSE RecordBroken(RecordChain(ta, url, net), url, is_internal, net)

\* line 42: stop_after_attempt(3)
StopAfterAttempt == 3

\* What the network does to the successive requests for url: plan[k] is the
\* outcome of the k-th request.  A plan ends with the first response, or
\* after StopAfterAttempt failures.
SimpleResponses(url) == {Response(<<>>, url, st) : st \in ProbeStatuses}

RECURSIVE Failures(_)
Failures(n) == IF n = 0 THEN <<>> ELSE <<NetError>> \o Failures(n - 1)

NetPlans(url) ==
    {<<net>> : net \in NetOutcomes(url) \ {NetError}}
    \cup {Failures(n) \o <<r>> : n \in 1..(StopAfterAttempt - 1), r \in SimpleResponses(url)}
    \cup {Failures(StopAfterAttempt)}

\* the body of check_url leaving through an exception under the outcome net
\* when its handler is missing
PropagatesNetworkFailure(net) == net.kind = "error"

\* lines 45-82: whether the body of check_url leaves through an exception
\* under the outcome net.  The handler of line 76 catches every
\* RequestException, so the retry decorator of line 42 never sees one.
Propagates(net) == FALSE

\* lines 42-82: check_url under its @retry decorator: the body is called
\* again only after a call that left through an exception, at most
\* StopAfterAttempt times in all.  The result is the new analyzer state, the
\* value returned, the number of requests issued and the last outcome.
RECURSIVE CheckUrlRetry(_, _, _, _, _)
CheckUrlRetry(ta, url, is_internal, plan, attempt) ==
    LET net == Head(plan)
    IN  IF Propagates(net) /\ attempt < StopAfterAttempt /\ Len(plan) > 1
        THEN CheckUrlRetry(ta, url, is_internal, Tail(plan), attempt + 1)
        ELSE [ta |-> IF Propagates(net) THEN ta ELSE CheckUrl(ta, url, is_internal, net),
              ret |-> IF Propagates(net) THEN [NoResponse EXCEPT !.kind = "raised"]
                      ELSE CheckUrlReturn(net),
              attempts |-> attempt,
              net |-> net]

\* the analyzer's state as a record
Analyzer ==
    [broken_links |-> broken_links,
     redirect_chains |-> redirect_chains,
     redirect_loops |-> redirect_loops]

NoProbe ==
    [url |-> "", is_internal |-> FALSE, net |-> NoResponse, ret |-> NoResponse,
     loops_before |-> 0, plan |-> <<>>, attempts |-> 0,
     before |-> [broken_links |-> EmptyMap, redirect_chains |-> EmptyMap,
                 redirect_loops |-> 0]]

\* one check_url call
Probe ==
    /\ probes < MaxProbes
    /\ \E url \in ProbeUrls, is_internal \in BOOLEAN :
         \E plan \in NetPlans(url) :
            \E call \in {CheckUrlRetry(Analyzer, url, is_internal, plan, 1)} :
                /\ broken_links' = call.ta.broken_links
                /\ redirect_chains' = call.ta.redirect_chains
                /\ redirect_loops' = call.ta.redirect_loops
                /\ last_probe' = [url |-> url, is_internal |-> is_internal,
                                  net |-> call.net, ret |-> call.ret,
                                  loops_before |-> redirect_loops,
                                  plan |-> plan, attempts |-> call.attempts,
                                  before |-> Analyzer]
    /\ probes' = probes + 1
    /\ UNCHANGED <<sitemap_issues, crawlVars, sitemapVars, pageVars>>

(***************************************************************************)
(* Sitemap Validator: TechnicalAnalyzer.validate_sitemap                   *)
(*                                                                         *)
(* sm_docs gives, for every sitemap URL, what a GET of it yields:          *)
(*   "not_found"  a response whose status is not 200 (404)                 *)
(*   "net_error"  requests.RequestException                                *)
(*   "bad_xml"    a 200 response whose body ET.fromstring rejects          *)
(*   "index"      a <sitemapindex> with the <loc> texts locs               *)
(*   "urlset"     a <urlset>; its <url> entries are drawn when it is read  *)
(* The recursion is a stack: a frame is an index being iterated, sm_call   *)
(* is the call about to be entered.                                        *)
(***************************************************************************)
NoCall == ""

\* the number of <loc> elements in all sitemap indexes together
MaxSitemapLocs == 2

\* the number of <url> entries of one urlset
MaxEntries == 2

Doc(kind, locs) == [kind |-> kind, locs |-> locs]

LeafKinds == {"not_found", "net_error", "bad_xml", "urlset"}

\* the documents a sitemap URL may hold, with at most n <loc> elements
Docs(n) ==
    {Doc(k, <<>>) : k \in LeafKinds} \cup
    {Doc("index", l) : l \in UNION {[1..k -> SitemapUrls] : k \in 1..n}}

\* what a referenced sitemap file that is not a /sitemap.xml may hold
LeafDocs == {Doc("not_found", <<>>), Doc("urlset", <<>>)}

\* one <url> element: loc is the <loc> text, lastmod and priority say
\* whether the element is absent and how its text parses
Entry(loc, lastmod, priority) == [loc |-> loc, lastmod |-> lastmod, priority |-> priority]

\* lastmod: "absent", "valid", "invalid" (fromisoformat raises ValueError);
\* priority: "absent", "out_of_range", "not_a_number" (float raises
\* ValueError), "empty" (<priority/>: the text is None and float raises
\* TypeError)
SitemapEntries ==
    {Entry(PageA, "absent", "absent"), Entry(PageB, "invalid", "out_of_range"),
     Entry(PageA, "valid", "not_a_number"), Entry(PageB, "absent", "empty")}

\* the <url> lists of a urlset: at most MaxEntries entries, none twice
EntryLists == {l \in UNION {[1..n -> SitemapEntries] : n \in 0..MaxEntries} :
                  \A i, j \in DOMAIN l : i # j => l[i] # l[j]}

\* what the probe of a sitemap URL does
SitemapNets == {NetError} \cup {Response(<<>>, u, st) : u \in {PageA}, st \in {200, 204, 404}}

\* the outcomes drawn for the probe of an entry: every outcome for an entry
\* without lastmod and priority, a 200 answer for the others
NetsFor(entry) ==
    IF entry.lastmod = "absent" /\ entry.priority = "absent" THEN SitemapNets
    ELSE {Response(<<>>, PageA, 200)}

ProbeNets(entries) ==
    {n \in [1..Len(entries) -> SitemapNets] : \A i \in DOMAIN n : n[i] \in NetsFor(entries[i])}

Issue(msg, arg) == [msg |-> msg, arg |-> arg]

\* requests.Response.__bool__ is Response.ok: no 4xx or 5xx status
Truthy(response) == response.kind = "response" /\ response.status_code < 400

\* lines 114-119: the probe of the entry's <loc>
EntryStatusIssues(entry, net) ==
    IF /\ entry.loc # ""
       /\ Truthy(CheckUrlReturn(net))
       /\ net.status_code \notin {200, 301}
    THEN <<Issue("Invalid status for sitemap URL", entry.loc)>>
    ELSE <<>>

\* lines 121-127: datetime.fromisoformat raises ValueError
LastmodIssues(entry) ==
    IF entry.lastmod = "invalid"
    THEN <<Issue("Invalid lastmod format in sitemap", entry.loc)>>
    ELSE <<>>

\* lines 129-137: float() raises ValueError, or the value is outside [0, 1]
PriorityIssues(entry) ==
    IF entry.priority = "out_of_range"
    THEN <<Issue("Invalid priority value in sitemap", entry.loc)>>
    ELSE IF entry.priority = "not_a_number"
    THEN <<Issue("Invalid priority format in sitemap", entry.loc)>>
    ELSE <<>>

\* lines 132-137: float(priority.text) raises TypeError for a text of None,
\* which the 'except ValueError' of line 136 does not catch
PriorityRaises(entry) == entry.priority = "empty"

\* lines 113-137 and 144-145: the loop over the <url> elements of a urlset;
\* st is [ta, issues, processed], nets[i] the network outcome of the probe of
\* entries[i], processed the number of entries probed.  An exception that
\* leaves the loop is caught by the handler of line 144, which appends an
\* issue; the entries after it are not looked at.
RECURSIVE ValidateEntries(_, _, _)
ValidateEntries(st, entries, nets) ==
    IF entries = <<>> THEN st
    ELSE LET entry == Head(entries)
             net == Head(nets)
             ta == IF entry.loc # ""
                   THEN CheckUrl(st.ta, entry.loc, TRUE, net)
                   ELSE st.ta
             checked == st.issues \o EntryStatusIssues(entry, net)
                                  \o LastmodIssues(entry)
         IN  IF PriorityRaises(entry)
             THEN [ta |-> ta,
                   issues |-> Append(checked, Issue("Unexpected error processing sitemap",
                                                    "TypeError")),
                   processed |-> st.processed + 1]
             ELSE ValidateEntries([ta |-> ta,
                                   issues |-> checked \o PriorityIssues(entry),
                                   processed |-> st.processed + 1],
                                  Tail(entries), Tail(nets))

\* the visited test that never finds the URL
AlreadyVisitedNever(sitemap_url, visited_sitemaps) == FALSE

\* line 90: sitemap_url in visited_sitemaps
AlreadyVisited(sitemap_url, visited_sitemaps) == sitemap_url \in visited_sitemaps

\* lines 95-102 and 139-145: a GET that yields no parsed document; only the
\* message of line 98 names the sitemap, the others carry the exception text
FetchIssue(kind, sitemap_url) ==
    IF kind = "not_found" THEN Issue("Sitemap not found at", sitemap_url)
    ELSE IF kind = "net_error" THEN Issue("Error fetching sitemap", "RequestException")
    ELSE Issue("Invalid XML in sitemap", "ParseError")

\* line 99 without its return: the body of the non-200 answer is parsed too
FetchIssuesFallingThrough(kind, sitemap_url) ==
    IF kind = "not_found"
    THEN <<FetchIssue(kind, sitemap_url), FetchIssue("bad_xml", sitemap_url)>>
    ELSE <<FetchIssue(kind, sitemap_url)>>

\* lines 97-99, 139-143: the issues of a GET that yields no parsed document
FetchIssues(kind, sitemap_url) == <<FetchIssue(kind, sitemap_url)>>

\* a record of sm_log
Fetched(url, kind, appended, entries, nets, processed) ==
    [url |-> url, kind |-> kind, appended |-> appended, entries |-> entries,
     nets |-> nets, processed |-> processed]

\* lines 84-106 and 111-145: validate_sitemap(domain, visited_sitemaps) up
\* to the loop over an index's <loc> elements
SmEnter ==
    /\ sm_call # NoCall
    /\ LET sitemap_url == SitemapUrl(sm_call)
           doc == sm_docs[sitemap_url]
       IN  IF AlreadyVisited(sitemap_url, sm_visited)
           THEN UNCHANGED <<sm_visited, sm_fetches, sm_stack, sm_validated, sm_log,
                            techVars>>
           ELSE /\ sm_visited' = sm_visited \cup {sitemap_url}
                /\ sm_fetches' = Put(sm_fetches, sitemap_url, Count(sm_fetches, sitemap_url) + 1)
                /\ IF doc.kind = "index"
                   THEN /\ sm_stack' = <<[url |-> sitemap_url, locs |-> doc.locs]>> \o sm_stack
                        /\ sm_log' = Append(sm_log, Fetched(sitemap_url, doc.kind, <<>>,
                                                             <<>>, <<>>, 0))
                        /\ UNCHANGED <<sm_validated, techVars>>
                   ELSE IF doc.kind = "urlset"
                   THEN \E entries \in EntryLists :
                          \E nets \in ProbeNets(entries) :
                            LET st == ValidateEntries([ta |-> Analyzer, issues |-> <<>>,
                                                       processed |-> 0],
                                                      entries, nets)
                            IN  /\ broken_links' = st.ta.broken_links
                                /\ redirect_chains' = st.ta.redirect_chains
                                /\ redirect_loops' = st.ta.redirect_loops
                                /\ sitemap_issues' = sitemap_issues \o st.issues
                                /\ sm_log' = Append(sm_log,
                                                    Fetched(sitemap_url, doc.kind, st.issues,
                                                            entries, nets, st.processed))
                                /\ sm_validated' = Append(sm_validated,
                                                          [url |-> sitemap_url, entries |-> entries])
                                /\ UNCHANGED sm_stack
                   ELSE /\ sitemap_issues' = sitemap_issues \o FetchIssues(doc.kind, sitemap_url)
                        /\ sm_log' = Append(sm_log,
                                            Fetched(sitemap_url, doc.kind,
                                                    FetchIssues(doc.kind, sitemap_url),
                                                    <<>>, <<>>, 0))
                        /\ UNCHANGED <<broken_links, redirect_chains, redirect_loops,
                                       sm_stack, sm_validated>>
    /\ sm_call' = NoCall
    /\ UNCHANGED <<sm_docs, crawlVars, probeVars, pageVars>>

\* lines 107-110: one iteration of the loop over an index's <loc> elements
SmNextLoc ==
    /\ sm_call = NoCall
    /\ sm_stack # <<>>
    /\ Head(sm_stack).locs # <<>>
    /\ LET loc == Head(Head(sm_stack).locs)
           sitemap_domain == Host(loc)       \* urlparse(sitemap.text).netloc
       IN  /\ sm_stack' = [sm_stack EXCEPT ![1].locs = Tail(@)]
           /\ sm_call' = IF sitemap_domain # "" /\ sitemap_domain \notin sm_visited
                         THEN sitemap_domain
                         ELSE NoCall
    /\ UNCHANGED <<sm_docs, sm_visited, sm_fetches, sm_validated, sm_log, techVars,
                   crawlVars, probeVars, pageVars>>

\* the loop over an index's <loc> elements ends: validate_sitemap returns
SmReturn ==
    /\ sm_call = NoCall
    /\ sm_stack # <<>>
    /\ Head(sm_stack).locs = <<>>
    /\ sm_stack' = Tail(sm_stack)
    /\ UNCHANGED <<sm_call, sm_docs, sm_visited, sm_fetches, sm_validated, sm_log,
                   techVars, crawlVars, probeVars, pageVars>>

\* the outermost validate_sitemap call has returned
SmDone == sm_call = NoCall /\ sm_stack = <<>>

(***************************************************************************)
(* Structured-Data Analyzer: SiteCrawler.analyze_structured_data           *)
(*                                                                         *)
(* A page's markup is                                                      *)
(*   json_ld   the <script type="application/ld+json"> elements, each      *)
(*             [kind, types]: "invalid" (json.loads raises                 *)
(*             JSONDecodeError), "object" (a JSON object, types[1] its     *)
(*             "@type"), "array" (a JSON array of objects, types their     *)
(*             "@type"s)                                                   *)
(*   microdata the itemtype attributes, each split at "/"                  *)
(*   rdfa      the vocab attributes, each split at "/"                     *)
(* A raised exception that analyze_structured_data does not catch is the   *)
(* field raised of the result; what was written before it stays written.   *)
(***************************************************************************)
\* lines 174-186: the keys of self.structured_data["schema_types"]
SchemaTypeNames ==
    {"Organization", "LocalBusiness", "MedicalBusiness", "HealthAndBeautyBusiness",
     "Service", "Article", "BlogPosting", "WebPage", "FAQPage", "BreadcrumbList",
     "other"}

Methods == {"json_ld", "microdata", "rdfa"}

\* lines 173-212
StructuredDataInit ==
    [schema_types |-> [t \in SchemaTypeNames |-> <<>>],
     implementation_methods |->
         [m \in Methods |-> [count |-> 0, valid |-> <<>>, invalid |-> <<>>, errors |-> <<>>]],
     page_coverage |->
         [total_pages |-> 0, pages_with_schema |-> 0, pages_without_schema |-> <<>>]]

\* lines 672-678
FindingsInit ==
    [schema_types |-> <<>>, implementation_method |-> "", validation_status |-> "valid",
     schema_content |-> <<>>, errors |-> <<>>]

Script(kind, types) == [kind |-> kind, types |-> types]

\* lines 695-699 and 701-705: the catalog entry a type name goes to
Bucket(type) == IF type \in SchemaTypeNames THEN type ELSE "other"

\* one schema declaration of type `type` on page url; st is [sd, f, raised]
Classify(st, url, type) ==
    [st EXCEPT !.sd.schema_types[Bucket(type)] = Append(@, url),
               !.f.schema_types = Append(@, type)]

\* lines 693-699: for item in schema
RECURSIVE ClassifyItems(_, _, _)
ClassifyItems(st, url, types) ==
    IF types = <<>> THEN st
    ELSE ClassifyItems(Classify(st, url, Head(types)), url, Tail(types))

\* schema.get("@type", "") answering for a list as it does for a dict
TypeLookupFailsNever(script) == FALSE

\* line 689: schema.get("@type", "") raises AttributeError unless the parsed
\* JSON is an object: a list has no attribute 'get'
TypeLookupFails(script) == script.kind # "object"

\* lines 687-714: one JSON-LD script
JsonLdScript(st, url, script) ==
    IF script.kind = "invalid"
    THEN [st EXCEPT
            !.f.validation_status = "invalid",
            !.f.errors = Append(@, "Invalid JSON-LD"),
            !.sd.implementation_methods["json_ld"].invalid = Append(@, url),
            !.sd.implementation_methods["json_ld"].errors = Append(@, "JSONDecodeError")]
    ELSE IF TypeLookupFails(script)
    THEN [st EXCEPT !.raised = TRUE]
    ELSE LET st1 == IF script.kind = "array"
                    THEN ClassifyItems(st, url, script.types)
                    ELSE Classify(st, url, script.types[1])
         IN  [st1 EXCEPT
                !.f.schema_content = <<script>>,
                !.sd.implementation_methods["json_ld"].valid = Append(@, url)]

\* lines 686-714: for script in json_ld_scripts
RECURSIVE JsonLdScripts(_, _, _)
JsonLdScripts(st, url, scripts) ==
    IF scripts = <<>> \/ st.raised THEN st
    ELSE JsonLdScripts(JsonLdScript(st, url, Head(scripts)), url, Tail(scripts))

\* .split("/")[-1]
LastSegment(segments) == segments[Len(segments)]

\* lines 723-731 and 745-753: the items of an attribute-based style
RECURSIVE AttributeItems(_, _, _, _)
AttributeItems(st, url, method, items) ==
    IF items = <<>> THEN st
    ELSE LET st1 == Classify(st, url, LastSegment(Head(items)))
         IN  AttributeItems(
                 [st1 EXCEPT !.sd.implementation_methods[method].valid = Append(@, url)],
                 url, method, Tail(items))

\* lines 683-684, 720-721, 742-743: a style was found on the page
UseMethod(st, method) ==
    [st EXCEPT !.f.implementation_method = method,
               !.sd.implementation_methods[method].count = @ + 1]

\* lines 760-765 with the page counted once per schema declaration
PageCoveragePerDeclaration(st, url) ==
    [st EXCEPT
        !.sd.page_coverage.total_pages = @ + 1,
        !.sd.page_coverage.pages_with_schema = @ + Len(st.f.schema_types),
        !.sd.page_coverage.pages_without_schema =
            IF st.f.schema_types = <<>> THEN Append(@, url) ELSE @]

\* lines 760-765: update page coverage
PageCoverage(st, url) ==
    [st EXCEPT
        !.sd.page_coverage.total_pages = @ + 1,
        !.sd.page_coverage.pages_with_schema =
            IF st.f.schema_types # <<>> THEN @ + 1 ELSE @,
        !.sd.page_coverage.pages_without_schema =
            IF st.f.schema_types = <<>> THEN Append(@, url) ELSE @]

\* the test for an earlier style that never finds one
StyleFoundNever(st) == FALSE

\* lines 717 and 739: structured_data["implementation_method"] is set
StyleFound(st) == st.f.implementation_method # ""

\* lines 670-767: analyze_structured_data(soup, url) on the catalog sd;
\* the result is [sd, f, raised], f the findings it returns
AnalyzeStructuredData(sd, url, page) ==
    LET st0 == [sd |-> sd, f |-> FindingsInit, raised |-> FALSE]
        st1 == IF page.json_ld # <<>>
               THEN JsonLdScripts(UseMethod(st0, "json_ld"), url, page.json_ld)
               ELSE st0
        st2 == IF ~StyleFound(st1) /\ page.microdata # <<>>
               THEN AttributeItems(UseMethod(st1, "microdata"), url, "microdata",
                                   page.microdata)
               ELSE st1
        st3 == IF ~StyleFound(st2) /\ page.rdfa # <<>>
               THEN AttributeItems(UseMethod(st2, "rdfa"), url, "rdfa", page.rdfa)
               ELSE st2
    IN  IF st1.raised THEN st1 ELSE PageCoverage(st3, url)

(***************************************************************************)
(* Metadata Extractor: SiteCrawler.extract_metadata                        *)
(*                                                                         *)
(* Besides its markup a page has a title (soup.title.string.strip(), or    *)
(* NoText without a <title>), a meta description (NoText when absent or    *)
(* empty), its <h1> texts, the alt texts of its <img> elements and the     *)
(* text of its main content (NoText without one).                          *)
(***************************************************************************)
NoText == "<none>"

\* defaultdict(int)[k] += 1
Inc(m, k) == Put(m, k, Count(m, k) + 1)

\* lines 340-344, 354-358, 386-390: a value seen on page url; st is
\* [tracking, issues]
Track(st, value, url, issue) ==
    IF value \in DOMAIN st.tracking
    THEN [tracking |-> Put(st.tracking, value, Append(st.tracking[value], url)),
          issues |-> Inc(st.issues, issue)]
    ELSE [tracking |-> Put(st.tracking, value, <<url>>), issues |-> st.issues]

\* line 385: hash(content_text)
ContentHash(text) == IF text = "Welcome" THEN 1 ELSE 2

\* add n to a counter of crawl_issues; no key is created for n = 0
IncBy(m, k, n) == IF n = 0 THEN m ELSE Put(m, k, Count(m, k) + n)

\* lines 324-398: extract_metadata(soup, url); the result is the new
\* trackers and catalog, raised, and the metadata returned
ExtractMetadataResult(url, page) ==
    LET sdr == AnalyzeStructuredData(structured_data, url, page)
        t   == IF page.title # NoText
               THEN Track([tracking |-> title_tracking, issues |-> crawl_issues],
                          page.title, url, "duplicate_titles")
               ELSE [tracking |-> title_tracking,
                     issues |-> Inc(crawl_issues, "urls_missing_title_tag")]
        d   == IF page.meta_description # NoText
               THEN Track([tracking |-> meta_desc_tracking, issues |-> t.issues],
                          page.meta_description, url, "duplicate_meta_descriptions")
               ELSE [tracking |-> meta_desc_tracking,
                     issues |-> Inc(t.issues, "urls_missing_meta_description")]
        h   == IF page.h1 = <<>> THEN Inc(d.issues, "urls_missing_h1") ELSE d.issues
        i   == IncBy(h, "images_missing_alt_text",
                     Cardinality({k \in DOMAIN page.images : page.images[k] = ""}))
        c   == IF page.main_content # NoText
               THEN Track([tracking |-> content_tracking, issues |-> i],
                          ContentHash(page.main_content), url, "duplicate_content")
               ELSE [tracking |-> content_tracking, issues |-> i]
    IN  IF sdr.raised
        THEN [raised |-> TRUE, structured_data |-> sdr.sd,
              title_tracking |-> title_tracking,
              meta_desc_tracking |-> meta_desc_tracking,
              content_tracking |-> content_tracking,
              crawl_issues |-> crawl_issues,
              ret |-> [title_tag |-> "", structured_data |-> sdr.f]]
        ELSE [raised |-> FALSE, structured_data |-> sdr.sd,
              title_tracking |-> t.tracking,
              meta_desc_tracking |-> d.tracking,
              content_tracking |-> c.tracking,
              crawl_issues |-> c.issues,
              ret |-> [title_tag |-> IF page.title = NoText THEN "" ELSE page.title,
                       structured_data |-> sdr.f]]

\* the URLs extract_metadata is called on, in this order
MetaUrls == <<Seed, PageA>>

\* the number of schema declarations (scripts and attribute items) on a page
MaxMarkup == 2

JsonLdChoices ==
    {Script("invalid", <<>>), Script("object", <<"Organization">>),
     Script("object", <<"Recipe">>), Script("array", <<"Organization", "Article">>)}

MicrodataChoices == {<<"https:", "", "schema.org", "Article">>}

RdfaChoices == {<<"https:", "", "schema.org", "">>}

Lists(choices, n) == UNION {[1..k -> choices] : k \in 0..n}

\* title, description, headings, images and main content of the model's pages
Texts ==
    {[title |-> t, meta_description |-> r.meta_description, h1 |-> r.h1,
      images |-> r.images, main_content |-> r.main_content] :
        t \in {NoText, "Home", "About"},
        r \in {[meta_description |-> NoText, h1 |-> <<>>, images |-> <<"">>,
                main_content |-> NoText],
               [meta_description |-> "A site", h1 |-> <<"Hello">>, images |-> <<"logo">>,
                main_content |-> "Welcome"]}}

PageOf(text, j, m, r) ==
    [title |-> text.title, meta_description |-> text.meta_description, h1 |-> text.h1,
     images |-> text.images, main_content |-> text.main_content,
     json_ld |-> j, microdata |-> m, rdfa |-> r]

\* one extract_metadata call, on the next URL of MetaUrls
ExtractMetadata ==
    /\ Len(analysed) < Len(MetaUrls)
    /\ LET url == MetaUrls[Len(analysed) + 1]
       IN  \E text \in Texts :
             \E j \in Lists(JsonLdChoices, MaxMarkup) :
               \E m \in Lists(MicrodataChoices, IF MaxMarkup - Len(j) > 1 THEN 1
                                                 ELSE MaxMarkup - Len(j)) :
                 \E r \in Lists(RdfaChoices, IF MaxMarkup - Len(j) - Len(m) > 1 THEN 1
                                              ELSE MaxMarkup - Len(j) - Len(m)) :
                   \E page \in {PageOf(text, j, m, r)} :
                     \E res \in {ExtractMetadataResult(url, page)} :
                       /\ structured_data' = res.structured_data
                       /\ title_tracking' = res.title_tracking
                       /\ meta_desc_tracking' = res.meta_desc_tracking
                       /\ content_tracking' = res.content_tracking
                       /\ crawl_issues' = res.crawl_issues
                       /\ analysed' = Append(analysed,
                                             [url |-> url, page |-> page,
                                              raised |-> res.raised, ret |-> res.ret,
                                              with_schema_before |->
                                                  structured_data.page_coverage.pages_with_schema,
                                              sd_before |-> structured_data])
    /\ UNCHANGED <<canonical_issues, robots_txt_content, verdicts, crawlVars,
                   techVars, probeVars, sitemapVars>>

(***************************************************************************)
(* Indexability Checker: SiteCrawler.is_allowed_by_robots and              *)
(* check_indexability                                                      *)
(*                                                                         *)
(* robots_txt_content is the list of the file's lines, each [directive,    *)
(* path]: the text before the first ':' and the stripped text after it,    *)
(* as a sequence of pieces; a URL is compared as its sequence of pieces.   *)
(* An absent or empty robots.txt is the empty list.                        *)
(* A page has meta_robots (the content of <meta name="robots">, NoText     *)
(* when absent) and canonical (the href of <link rel="canonical">, NoText  *)
(* when absent).  A call that leaves through an exception is logged in     *)
(* verdicts with raised set: it returned no verdict.                       *)
(***************************************************************************)
UrlPieces(u) ==
    IF u = Seed THEN <<"https://example.com", "/">>
    ELSE IF u = PageA THEN <<"https://example.com", "/", "a">>
    ELSE <<"https://example.com", "/", "b">>

\* the path compared with any part of the URL
EndsWithAnywhere(pieces, suffix) ==
    \E k \in 1..Len(pieces) :
        k + Len(suffix) - 1 <= Len(pieces) /\ SubSeq(pieces, k, k + Len(suffix) - 1) = suffix

\* str.endswith
EndsWith(pieces, suffix) ==
    /\ Len(suffix) <= Len(pieces)
    /\ SubSeq(pieces, Len(pieces) - Len(suffix) + 1, Len(pieces)) = suffix

\* str.lower
Lower(text) == IF text \in {"Disallow", "DISALLOW"} THEN "disallow"
               ELSE IF text = "NOINDEX" THEN "noindex"
               ELSE text

\* lines 275-286
IsAllowedByRobots(url) ==
    \A i \in DOMAIN robots_txt_content :
        LET line == robots_txt_content[i]
        IN  ~ ( /\ Lower(line.directive) = "disallow"
                /\ line.path # <<>>
                /\ EndsWith(UrlPieces(url), line.path) )

\* 'noindex' in content.lower()
HasNoindex(content) == Lower(content) \in {"noindex", "noindex,nofollow"}

\* the canonical checks accumulating every issue that applies
CanonicalIssuesAccumulating(url, href) ==
    IF href \in {NoText, ""}
    THEN <<"missing_canonical">>
    ELSE (IF ~StartsWithHttp(href) THEN <<"relative_url">> ELSE <<>>)
         \o (IF Host(href) # "" /\ Host(href) # Host(url)
             THEN <<"points_to_different_domain">> ELSE <<>>)
         \o (IF href # url THEN <<"points_to_different_url">> ELSE <<>>)

\* line 431: urlparse(canonical_url) raises ValueError, which
\* check_indexability does not catch
CanonicalParseRaises(href) == href = MalformedCanonical

\* lines 419-445: the canonical_issues list of the verdict; when line 431
\* raises, the list as it is at that point
CanonicalIssues(url, href) ==
    IF href \in {NoText, ""}
    THEN <<"missing_canonical">>
    ELSE LET relative == IF ~StartsWithHttp(href) THEN <<"relative_url">> ELSE <<>>
             domain   == IF Host(href) # "" /\ Host(href) # Host(url)
                         THEN <<"points_to_different_domain">> ELSE <<>>
             earlier  == relative \o domain
         IN  IF CanonicalParseRaises(href) THEN relative
             ELSE IF href # url /\ earlier = <<>>
             THEN <<"points_to_different_url">>
             ELSE earlier

\* the session counters after the issues of one page
RECURSIVE CountIssues(_, _)
CountIssues(counters, issues) ==
    IF issues = <<>> THEN counters
    ELSE CountIssues(Inc(counters, Head(issues)), Tail(issues))

\* lines 400-447: the verdict check_indexability(soup, url) returns, or has
\* built when line 431 raises
Verdict(url, page) ==
    [robots_txt_allowed |-> IsAllowedByRobots(url),
     meta_robots |-> IF page.meta_robots \in {NoText, ""} THEN "index,follow"
                     ELSE Lower(page.meta_robots),
     canonical |-> IF page.canonical \in {NoText, ""} THEN url ELSE page.canonical,
     canonical_self_referencing |->
         page.canonical \in {NoText, "", url} \/ CanonicalParseRaises(page.canonical),
     noindex_reason |-> IF page.meta_robots \notin {NoText, ""} /\ HasNoindex(page.meta_robots)
                        THEN "meta_robots_noindex" ELSE "",
     canonical_issues |-> CanonicalIssues(url, page.canonical)]

MetaRobotsChoices == {NoText, "index,follow", "noindex,nofollow", "NOINDEX"}

CanonicalChoices ==
    Pages \cup {NoText, "", RelativeHref, ProtocolRelativeHref, External, MalformedCanonical}

RobotsChoices ==
    {<<>>,
     <<[directive |-> "User-agent", path |-> <<"*">>],
       [directive |-> "Disallow", path |-> <<"/", "a">>]>>,
     <<[directive |-> "disallow", path |-> <<"/">>],
       [directive |-> "Disallow", path |-> <<>>]>>,
     <<[directive |-> " Disallow", path |-> <<"/">>],
       [directive |-> "Allow", path |-> <<"/", "a">>],
       [directive |-> "DISALLOW", path |-> <<"a">>]>>}

\* one check_indexability call, on the next URL of MetaUrls
CheckIndexability ==
    /\ Len(verdicts) < Len(MetaUrls)
    /\ LET url == MetaUrls[Len(verdicts) + 1]
       IN  \E m \in MetaRobotsChoices, c \in CanonicalChoices :
             LET page == [meta_robots |-> m, canonical |-> c]
                 v == Verdict(url, page)
             IN  /\ crawl_issues' = IF v.noindex_reason # ""
                                    THEN Inc(crawl_issues, "non_indexable_urls")
                                    ELSE crawl_issues
                 /\ canonical_issues' = CountIssues(canonical_issues, v.canonical_issues)
                 /\ verdicts' = Append(verdicts,
                                       [url |-> url, page |-> page, verdict |-> v,
                                        raised |-> CanonicalParseRaises(c)])
    /\ UNCHANGED <<title_tracking, meta_desc_tracking, content_tracking, structured_data,
                   robots_txt_content, analysed, crawlVars, techVars, probeVars,
                   sitemapVars>>

(***************************************************************************)
(* Link Graph Builder: SiteCrawler.analyze_internal_links                  *)
(*                                                                         *)
(* The traversal works on the record                                       *)
(*   g = [il, inb, dep, ffo, vis, fet, nodepth, exp, cnt]                  *)
(* of internal_links, inbound_links, page_depths, first_found_on, the      *)
(* traversal's own visited set, the URLs passed to get_page_content, the   *)
(* URLs that entered the visited set while they had no depth, the calls    *)
(* that went past the visited test, in order, as [url, depth], and the     *)
(* number of get_page_content calls per URL.  down is                      *)
(* the set of pages for which get_page_content returns None during this    *)
(* traversal (a page is fetched at most once per traversal, so one set     *)
(* describes every fetch of it).                                           *)
(***************************************************************************)
RECURSIVE Traverse(_, _, _, _)
RECURSIVE TraverseLinks(_, _, _, _, _)

\* the link recorded in the outbound map only
RecordLinkOutboundOnly(g, url, href, depth) ==
    [g EXCEPT !.il  = AddTo(@, url, href),
              !.dep = IF href \in DOMAIN @ THEN @ ELSE Put(@, href, depth + 1),
              !.ffo = IF href \in DOMAIN g.dep THEN @ ELSE Put(@, href, url)]

\* lines 483-490: the graph update for one in-scope link url -> href
RecordLink(g, url, href, depth) ==
    [g EXCEPT !.il  = AddTo(@, url, href),
              !.inb = AddTo(@, href, url),
              !.dep = IF href \in DOMAIN @ THEN @ ELSE Put(@, href, depth + 1),
              !.ffo = IF href \in DOMAIN g.dep THEN @ ELSE Put(@, href, url)]

\* lines 470-497: the loop over the page's links, in document order
TraverseLinks(g, url, depth, links, down) ==
    IF links = <<>> THEN g
    ELSE LET href == Head(links)
             g1 == IF Skipped(href) \/ ~IsInternal(href, Host(url)) THEN g
                   ELSE LET g2 == RecordLink(g, url, href, depth)
                        IN  IF href \notin g2.vis
                            THEN Traverse(g2, href, depth + 1, down)
                            ELSE g2
         IN  IF UrljoinRaises(href)
             THEN TraverseLinks(g, url, depth, AfterLinkFailure(links), down)
             ELSE TraverseLinks(g1, url, depth, Tail(links), down)

\* the root of the traversal left out of the visited set
EnterRootUnmarked(g, url, depth) ==
    [g EXCEPT !.vis = IF depth = 0 THEN @ ELSE @ \cup {url},
              !.fet = @ \cup {url},
              !.cnt = Inc(@, url),
              !.exp = Append(@, [url |-> url, depth |-> depth]),
              !.nodepth = IF url \in DOMAIN g.dep THEN @ ELSE @ \cup {url}]

\* lines 458-463: visited.add(url), then get_page_content(url)
Enter(g, url, depth) ==
    [g EXCEPT !.vis = @ \cup {url},
              !.fet = @ \cup {url},
              !.cnt = Inc(@, url),
              !.exp = Append(@, [url |-> url, depth |-> depth]),
              !.nodepth = IF url \in DOMAIN g.dep THEN @ ELSE @ \cup {url}]

\* lines 455-468: one (recursive) call with a visited set
Traverse(g, url, depth, down) ==
    IF url \in g.vis THEN g
    ELSE LET g1 == Enter(g, url, depth)
         IN  IF url \in down THEN g1
             ELSE TraverseLinks(g1, url, depth, site[url], down)

\* the root of a traversal left without a depth
RootDepthsUnset(depths, url) == depths

\* lines 451-453: visited is None: self.page_depths[url] = 0
RootDepths(depths, url) == Put(depths, url, 0)

\* lines 449-500: analyze_internal_links(url), called with visited = None
AnalyzeInternalLinks(url, down) ==
    Traverse([il  |-> internal_links,
              inb |-> inbound_links,
              dep |-> RootDepths(page_depths, url),
              ffo |-> first_found_on,
              vis |-> {},
              fet |-> fetched,
              nodepth |-> {},
              exp |-> <<>>,
              cnt |-> fetch_count],
             url, 0, down)

\* identify_orphan_pages iterating the keys of inbound_links instead of
\* those of internal_links
IdentifyOrphanPagesInboundKeys(il, inb, orphans) ==
    orphans \cup {page \in DOMAIN inb : inb[page] = {}}

\* lines 502-507: identify_orphan_pages on the graph (il, inb)
IdentifyOrphanPages(il, inb, orphans) ==
    orphans \cup {page \in DOMAIN il : Get(inb, page) = {}}

\* the sum of f[k] over the keys k
RECURSIVE SumOver(_, _)
SumOver(f, keys) ==
    IF keys = {} THEN 0
    ELSE LET k == CHOOSE x \in keys : TRUE
         IN  f[k] + SumOver(f, keys \ {k})

\* line 530: self.page_depths.get(url, -1)
DepthOf(dep, url) == IF url \in DOMAIN dep THEN dep[url] ELSE -1

\* the distribution counting only the pages below the root
DepthDistributionBelowRoot(il, dep) ==
    [d \in {DepthOf(dep, u) : u \in {x \in DOMAIN il : DepthOf(dep, x) > 0}} |->
        Cardinality({u \in DOMAIN il : DepthOf(dep, u) = d})]

\* lines 529-532: the number of keys of internal_links per depth >= 0
DepthDistribution(il, dep) ==
    [d \in {DepthOf(dep, u) : u \in {x \in DOMAIN il : DepthOf(dep, x) >= 0}} |->
        Cardinality({u \in DOMAIN il : DepthOf(dep, u) = d})]

\* lines 517-534: get_linking_metrics() on the graph, after
\* identify_orphan_pages gave the orphan set
GetLinkingMetrics(il, dep, orphans) ==
    [orphan_pages |-> orphans,
     depth_distribution |-> DepthDistribution(il, dep),
     total_pages |-> Cardinality(DOMAIN il),
     total_internal_links |-> SumOver([k \in DOMAIN il |-> Cardinality(il[k])], DOMAIN il)]

(***************************************************************************)
(* Crawl Orchestrator: SiteCrawler.crawl_site and main                     *)
(***************************************************************************)
\* lines 588-603: the in-scope links crawl_site collects for recursion
LinkedToCrawl(url, seen) ==
    {h \in Range(Processed(site[url])) :
        ~Skipped(h) /\ IsInternal(h, Host(url)) /\ h \notin seen}

\* an entry of the loop over the linked pages: crawl_site(url, depth, visited)
\* called from the result of parent
Linked(url, parent, depth) == [url |-> url, parent |-> parent, depth |-> depth]

\* the linked pages crawled from a page of any depth
ToCrawlAtAnyDepth(url, depth, seen) ==
    {Linked(h, url, depth + 1) : h \in LinkedToCrawl(url, seen)}

\* lines 647-651: only at depth 0 are the linked pages crawled
ToCrawl(url, depth, seen) ==
    IF depth = 0 THEN {Linked(h, url, depth + 1) : h \in LinkedToCrawl(url, seen)}
    ELSE {}

\* lines 550-558: the keys of the result crawl_site starts with; the two
\* summaries are empty dictionaries and linked_pages an empty list
BaseKeys ==
    {"crawl_timestamp", "url_count", "domain", "analyzed_url", "crawl_issues_summary",
     "canonical_issues_summary", "linked_pages"}

\* lines 613-645: the keys set after the page was analysed
AnalysisKeys == {"page_info", "technical_analysis", "internal_linking_summary"}

\* the keys of a returned result: "partial" is the result of lines 573 and
\* 663, "full" the one of line 659
ResultKeys(shape) == IF shape = "full" THEN BaseKeys \cup AnalysisKeys ELSE BaseKeys

\* lines 621-631: the keys whose value carries data
FilledKeys(shape) ==
    IF shape = "full"
    THEN AnalysisKeys \cup {"crawl_issues_summary", "canonical_issues_summary"}
    ELSE {}

\* lines 621-630: the counters copied into crawl_issues_summary
SummaryKeys ==
    {"urls_missing_title_tag", "urls_missing_meta_description", "urls_missing_h1",
     "images_missing_alt_text", "duplicate_titles", "duplicate_meta_descriptions",
     "duplicate_content"}

\* lines 621-631: the two summaries of a result, copied from the session
\* counters as they are when the page has been analysed
Summaries(issues, loops, canonical) ==
    [crawl_issues_summary |->
         [k \in SummaryKeys \cup {"redirect_loops"} |->
             IF k = "redirect_loops" THEN loops ELSE Count(issues, k)],
     canonical_issues_summary |-> canonical]

\* lines 555-556: the summaries of a result that was not filled
NoSummaries == [crawl_issues_summary |-> EmptyMap, canonical_issues_summary |-> EmptyMap]

\* What the page gives crawl_site: get_page_content returns None
\* ("unavailable"), the page is analysed ("analyzed"), or its analysis
\* raises inside extract_metadata and the outer handler returns ("raises").
Outcomes == {"unavailable", "raises", "analyzed"}

\* The pages of the crawled site: a title, nothing else; the page whose
\* analysis raises carries a JSON-LD array (line 689).
CrawledPage(out) ==
    PageOf([title |-> "Home", meta_description |-> NoText, h1 |-> <<>>,
            images |-> <<>>, main_content |-> NoText],
           IF out = "raises" THEN <<Script("array", <<"Organization", "Article">>)>>
           ELSE <<>>,
           <<>>, <<>>)

\* no <meta name="robots"> and no <link rel="canonical"> on the crawled pages
CrawledHead == [meta_robots |-> NoText, canonical |-> NoText]

\* lines 84-145: validate_sitemap(domain, visited_sitemaps) with the calls
\* it makes on itself, on the documents of sm_docs; st is
\* [vis, fetches, issues].  The urlsets of the crawled site list no URL.
RECURSIVE ValidateSitemap(_, _)
RECURSIVE ValidateLocs(_, _)
ValidateSitemap(st, domain) ==
    LET sitemap_url == SitemapUrl(domain)
    IN  IF AlreadyVisited(sitemap_url, st.vis) THEN st
        ELSE LET st1 == [st EXCEPT !.vis = @ \cup {sitemap_url},
                                   !.fetches = Put(@, sitemap_url,
                                                   Count(@, sitemap_url) + 1)]
                 doc == sm_docs[sitemap_url]
             IN  IF doc.kind = "index" THEN ValidateLocs(st1, doc.locs)
                 ELSE IF doc.kind = "urlset" THEN st1
                 ELSE [st1 EXCEPT !.issues = @ \o FetchIssues(doc.kind, sitemap_url)]

\* lines 107-110
ValidateLocs(st, locs) ==
    IF locs = <<>> THEN st
    ELSE LET sitemap_domain == Host(Head(locs))
         IN  ValidateLocs(IF sitemap_domain # "" /\ sitemap_domain \notin st.vis
                          THEN ValidateSitemap(st, sitemap_domain)
                          ELSE st,
                          Tail(locs))

\* line 567: a fresh visited_sitemaps set for every crawl_site call
ValidateSitemapFresh(domain) ==
    ValidateSitemap([vis |-> {}, fetches |-> sm_fetches, issues |-> sitemap_issues],
                    domain)

\* a HEAD request answered with 200 and without a redirect
Healthy(u) == Response(<<>>, u, 200)

\* lines 589-607: check_url(absolute_url, is_internal) on every link of the
\* page that is not skipped, in document order, duplicates included
RECURSIVE CheckLinks(_, _, _)
CheckLinks(ta, url, links) ==
    IF links = <<>> THEN ta
    ELSE LET href == Head(links)
         IN  CheckLinks(IF Skipped(href) THEN ta
                        ELSE CheckUrl(ta, href, IsInternal(href, Host(url)), link_net[href]),
                        url, Tail(links))

\* the visited test that never finds the URL
AlreadyCrawledNever(url, seen) == FALSE

\* line 541: url in visited
AlreadyCrawled(url, seen) == url \in seen

\* lines 589-607: the links of the page that check_url is called on
Probed(url) ==
    {k \in DOMAIN Processed(site[url]) : ~Skipped(Processed(site[url])[k])}

graphVars == <<internal_links, inbound_links, page_depths, first_found_on, orphan_pages>>

trackVars == <<title_tracking, meta_desc_tracking, content_tracking, crawl_issues,
               structured_data, analysed>>

\* lines 578 and 331-398: extract_metadata on the page, applied to the session
Extracted(url, page) ==
    \E res \in {ExtractMetadataResult(url, page)} :
        /\ structured_data' = res.structured_data
        /\ title_tracking' = res.title_tracking
        /\ meta_desc_tracking' = res.meta_desc_tracking
        /\ content_tracking' = res.content_tracking
        /\ crawl_issues' = res.crawl_issues
        /\ analysed' = Append(analysed,
                              [url |-> url, page |-> page,
                               raised |-> res.raised, ret |-> res.ret,
                               with_schema_before |->
                                   structured_data.page_coverage.pages_with_schema,
                               sd_before |-> structured_data])

\* line 579: check_indexability on the page, applied to the session
Indexed(url, head) ==
    LET v == Verdict(url, head)
    IN  /\ canonical_issues' = CountIssues(canonical_issues, v.canonical_issues)
        /\ verdicts' = Append(verdicts,
                              [url |-> url, page |-> head, verdict |-> v,
                               raised |-> CanonicalParseRaises(head.canonical)])

\* lines 536-663: one crawl_site(url, depth, visited) call up to the point
\* where it recurses into the linked pages (depth 0) or returns (depth 1);
\* parent is the page from whose loop it is called.
CrawlSite(url, depth, parent, out, down) ==
    \E g \in {AnalyzeInternalLinks(url, down)},
       ta \in {CheckLinks(Analyzer, url, Processed(site[url]))} :
    LET skipped == AlreadyCrawled(url, visited)
        full == ~skipped /\ out = "analyzed"
        rest == {p \in pending : ~(p.url = url /\ p.parent = parent)}
    IN
    /\ visited' = visited \cup {url}
    /\ calls' = Append(calls,
                       [url |-> url, depth |-> depth, parent |-> parent,
                        skipped |-> skipped,
                        out |-> IF skipped THEN "skipped" ELSE out,
                        traversed |-> IF full THEN g.vis ELSE {},
                        nodepth |-> IF full THEN g.nodepth ELSE {},
                        expanded |-> IF full THEN g.exp ELSE <<>>,
                        \* line 635
                        linking_metrics |->
                            IF full
                            THEN <<GetLinkingMetrics(
                                      Touch(g.il, url), g.dep,
                                      IdentifyOrphanPages(Touch(g.il, url), g.inb,
                                                          orphan_pages))>>
                            ELSE <<>>,
                        \* line 514: self.page_depths.get(url, -1)
                        reported_depth |-> IF ~full THEN <<>>
                                           ELSE IF url \in DOMAIN g.dep THEN <<g.dep[url]>>
                                           ELSE <<-1>>])
    /\ IF skipped                          \* lines 541-542: return None
       THEN /\ pending' = rest
            /\ UNCHANGED <<graphVars, trackVars, canonical_issues, verdicts, results,
                           linked_pages, fetched, sm_fetches, sitemap_issues, probes,
                           broken_links, redirect_chains, redirect_loops, summaries,
                           fetch_count>>
       ELSE /\ LET sm == ValidateSitemapFresh(Host(url))
               IN  /\ sm_fetches' = sm.fetches
                   /\ sitemap_issues' = sm.issues
            \* line 557 and lines 652-653: the result and its place in the tree
            /\ linked_pages' = IF depth = 0 THEN Put(linked_pages, url, <<>>)
                               ELSE AppendTo(Put(linked_pages, url, <<>>), parent, url)
            /\ IF out = "analyzed"
               THEN LET il == Touch(g.il, url)     \* get_page_linking_metrics(url)
                    IN  /\ Extracted(url, CrawledPage(out))
                        /\ Indexed(url, CrawledHead)
                        /\ internal_links' = il
                        \* lines 513 and 506: inbound_links[page] is read for
                        \* the page and for every key of internal_links
                        /\ inbound_links' = TouchKeys(g.inb, DOMAIN il)
                        /\ page_depths' = g.dep
                        /\ first_found_on' = g.ffo
                        /\ fetched' = g.fet \cup {url}
                        /\ fetch_count' = Inc(g.cnt, url)       \* line 570
                        /\ probes' = probes + Cardinality(Probed(url))
                        /\ broken_links' = ta.broken_links
                        /\ redirect_chains' = ta.redirect_chains
                        /\ redirect_loops' = ta.redirect_loops
                        /\ orphan_pages' = IdentifyOrphanPages(il, g.inb, orphan_pages)
                        /\ results' = Put(results, url, "full")
                        /\ summaries' = Put(summaries, url,
                                            Summaries(crawl_issues', redirect_loops',
                                                      canonical_issues'))
                        /\ pending' = rest \cup ToCrawl(url, depth, visited')
               ELSE /\ IF out = "raises"
                       THEN Extracted(url, CrawledPage(out))
                       ELSE UNCHANGED trackVars
                    /\ fetched' = fetched \cup {url}
                    /\ fetch_count' = Inc(fetch_count, url)
                    /\ results' = Put(results, url, "partial")
                    /\ summaries' = Put(summaries, url, NoSummaries)
                    /\ pending' = rest
                    /\ UNCHANGED <<graphVars, canonical_issues, verdicts, probes,
                                   broken_links, redirect_chains, redirect_loops>>
    /\ pc' = IF pending' = {} THEN "done" ELSE "linked"
    /\ UNCHANGED <<site, link_net, outputs,
                   last_probe, sm_docs, sm_stack, sm_call, sm_visited, sm_validated,
                   sm_log, robots_txt_content>>

\* the pages for which get_page_content returns None during the link
\* traversal of a call; the traversal runs only when the page is analysed
Unavailable(out) == IF out = "analyzed" THEN SUBSET (Pages \cap DOMAIN site) ELSE {{}}

\* main: crawler.crawl_site(url)
CrawlSeed ==
    /\ pc = "seed"
    /\ \E out \in Outcomes :
         \E down \in Unavailable(out) : CrawlSite(Seed, 0, Seed, out, down)

\* lines 647-656: for linked_url in internal_links: crawl_site(linked_url, 1, visited)
CrawlLinked ==
    /\ pc = "linked"
    /\ \E p \in pending, out \in Outcomes :
         \E down \in Unavailable(out) : CrawlSite(p.url, p.depth, p.parent, out, down)

\* the number of crawl_site calls made on a URL of the visited set
MaxRepeats == 1

\* crawl_site(url, 1, visited) called on a URL that is in visited
CrawlRepeated ==
    /\ pc # "seed"
    /\ Cardinality({i \in DOMAIN calls : calls[i].skipped}) < MaxRepeats
    /\ \E url \in visited, out \in Outcomes : CrawlSite(url, 1, Seed, out, {})

\* main, lines 916-930: the keys read from the seed's result
OutputKeys ==
    {"technical_analysis", "crawl_issues_summary", "canonical_issues_summary",
     "internal_linking_summary", "page_info"}

\* main, lines 911-933: the three files written from the result of
\* crawl_site(url); results[key] raises KeyError for a missing key
WriteOutputs ==
    /\ pc = "done"
    /\ outputs = "none"
    /\ Seed \in DOMAIN results
    /\ outputs' = IF OutputKeys \subseteq ResultKeys(results[Seed]) THEN "written"
                  ELSE "KeyError"
    /\ UNCHANGED <<site, internal_links, inbound_links, page_depths, orphan_pages,
                   visited, pending, results, pc, first_found_on, fetched, calls,
                   linked_pages, link_net, summaries, fetch_count, techVars, probeVars,
                   sitemapVars, pageVars>>

(***************************************************************************)
(* Initial states: TechnicalAnalyzer.__init__ and SiteCrawler.__init__     *)
(***************************************************************************)
TechInit ==
    /\ broken_links = EmptyMap
    /\ redirect_chains = EmptyMap
    /\ redirect_loops = 0
    /\ sitemap_issues = <<>>

ProbeInit ==
    /\ probes = 0
    /\ last_probe = NoProbe

SitemapIdle ==
    /\ sm_docs = EmptyMap
    /\ sm_stack = <<>>
    /\ sm_call = NoCall
    /\ sm_visited = {}
    /\ sm_fetches = EmptyMap
    /\ sm_validated = <<>>
    /\ sm_log = <<>>

CrawlerInit ==
    /\ internal_links = EmptyMap
    /\ inbound_links = EmptyMap
    /\ page_depths = EmptyMap
    /\ orphan_pages = {}
    /\ visited = {}
    /\ pending = {}
    /\ results = EmptyMap
    /\ first_found_on = EmptyMap
    /\ fetched = {}
    /\ fetch_count = EmptyMap
    /\ calls = <<>>
    /\ linked_pages = EmptyMap
    /\ summaries = EmptyMap
    /\ outputs = "none"

PageInit ==
    /\ title_tracking = EmptyMap
    /\ meta_desc_tracking = EmptyMap
    /\ content_tracking = EmptyMap
    /\ crawl_issues = EmptyMap
    /\ canonical_issues = EmptyMap
    /\ structured_data = StructuredDataInit
    /\ robots_txt_content = <<>>
    /\ analysed = <<>>
    /\ verdicts = <<>>

\* every link of the site answers its probe with 200 and without a redirect
AllHealthy == link_net = [u \in Targets \cup ScopeTargets |-> Healthy(u)]

\* a site without pages: the specifications that do not crawl
NoSite ==
    /\ site = EmptyMap
    /\ link_net = EmptyMap
    /\ pc = "done"

(***************************************************************************)
(* Spec: one crawl, main -> crawl_site(seed), over every site of at most   *)
(* MaxSiteLinks links                                                      *)
(***************************************************************************)
Init ==
    /\ \E la \in LinkLists(MaxSiteLinks) :
         \E lb \in LinkLists(MaxSiteLinks - Len(la)) :
           \E lc \in LinkLists(MaxSiteLinks - Len(la) - Len(lb)) :
             site = (Seed :> la) @@ (PageA :> lb) @@ (PageB :> lc)
    /\ AllHealthy
    /\ pc = "seed"
    /\ CrawlerInit
    /\ PageInit
    /\ TechInit
    /\ ProbeInit
    /\ \E r \in {Doc("not_found", <<>>), Doc("urlset", <<>>)} :
         sm_docs = (RootMap :> r) @@ (OtherMap :> Doc("not_found", <<>>))
    /\ sm_stack = <<>>
    /\ sm_call = NoCall
    /\ sm_visited = {}
    /\ sm_fetches = EmptyMap
    /\ sm_validated = <<>>
    /\ sm_log = <<>>

Next == CrawlSeed \/ CrawlLinked

Spec == Init /\ [][Next]_vars

(***************************************************************************)
(* SpecRecrawl: a crawl in which crawl_site is also called on a URL that   *)
(* is already in the visited set, over the sites whose links are all on    *)
(* the seed and whose sitemap is missing                                   *)
(***************************************************************************)
InitRecrawl ==
    /\ \E la \in LinkLists(MaxSiteLinks) :
         site = (Seed :> la) @@ (PageA :> <<>>) @@ (PageB :> <<>>)
    /\ AllHealthy
    /\ pc = "seed"
    /\ CrawlerInit
    /\ PageInit
    /\ TechInit
    /\ ProbeInit
    /\ sm_docs = (RootMap :> Doc("not_found", <<>>)) @@ (OtherMap :> Doc("not_found", <<>>))
    /\ sm_stack = <<>>
    /\ sm_call = NoCall
    /\ sm_visited = {}
    /\ sm_fetches = EmptyMap
    /\ sm_validated = <<>>
    /\ sm_log = <<>>

NextRecrawl == CrawlSeed \/ CrawlLinked \/ CrawlRepeated

SpecRecrawl == InitRecrawl /\ [][NextRecrawl]_vars

(***************************************************************************)
(* SpecScope: one crawl over the sites whose seed and whose page on the    *)
(* www. variant of the domain carry links, to pages of the domain, of its  *)
(* www. variants and of another domain, and hrefs that do not resolve      *)
(***************************************************************************)
InitScope ==
    /\ \E la \in ScopeLinkLists(MaxSiteLinks) :
         \E lw \in ScopeLinkLists(MaxSiteLinks - Len(la)) :
           site = (Seed :> la) @@ (PageA :> <<>>) @@ (WwwPage :> lw) @@
                  (WwwWwwPage :> <<>>)
    /\ AllHealthy
    /\ pc = "seed"
    /\ CrawlerInit
    /\ PageInit
    /\ TechInit
    /\ ProbeInit
    /\ sm_docs = (RootMap :> Doc("not_found", <<>>)) @@ (OtherMap :> Doc("not_found", <<>>))
                  @@ (SitemapUrl(Host(WwwPage)) :> Doc("not_found", <<>>))
    /\ sm_stack = <<>>
    /\ sm_call = NoCall
    /\ sm_visited = {}
    /\ sm_fetches = EmptyMap
    /\ sm_validated = <<>>
    /\ sm_log = <<>>

NextScope == CrawlSeed \/ CrawlLinked

SpecScope == InitScope /\ [][NextScope]_vars

(***************************************************************************)
(* SpecCycle: one crawl over the sites whose links all point to pages of    *)
(* the site, so that they form cycles; a crawl_site call that has started  *)
(* runs on: the crawl is one thread and every request has a timeout        *)
(***************************************************************************)
\* the href lists of one page: at most n links to pages of the site
PageLinkLists(n) == {s \in UNION {[1..k -> Pages] : k \in 0..n} :
                        \A i, j \in DOMAIN s : i # j => s[i] # s[j]}

InitCycle ==
    /\ \E la \in PageLinkLists(MaxSiteLinks) :
         \E lb \in PageLinkLists(MaxSiteLinks - Len(la)) :
           \E lc \in PageLinkLists(MaxSiteLinks - Len(la) - Len(lb)) :
             site = (Seed :> la) @@ (PageA :> lb) @@ (PageB :> lc)
    /\ AllHealthy
    /\ pc = "seed"
    /\ CrawlerInit
    /\ PageInit
    /\ TechInit
    /\ ProbeInit
    /\ sm_docs = (RootMap :> Doc("not_found", <<>>)) @@ (OtherMap :> Doc("not_found", <<>>))
    /\ sm_stack = <<>>
    /\ sm_call = NoCall
    /\ sm_visited = {}
    /\ sm_fetches = EmptyMap
    /\ sm_validated = <<>>
    /\ sm_log = <<>>

NextCycle == CrawlSeed \/ CrawlLinked

SpecCycle == InitCycle /\ [][NextCycle]_vars /\ WF_vars(NextCycle)

(***************************************************************************)
(* SpecLinks: one crawl over the sites whose seed and whose page /a carry   *)
(* links, the same href any number of times, and one of whose link targets *)
(* does not answer its probe with a plain 200                              *)
(***************************************************************************)
LinkTargets == {PageA, PageB, External}

\* the href lists of one page: at most n links, an href any number of times
RepeatedLinkLists(n) == UNION {[1..k -> LinkTargets] : k \in 0..n}

\* a HEAD request for u answered with 404, failing with RequestException, or
\* redirected once to u itself
BadNets(u) == {Response(<<>>, u, 404), NetError, Response(<<u>>, u, 200)}

InitLinks ==
    /\ \E la \in RepeatedLinkLists(MaxSiteLinks) :
         \E lb \in RepeatedLinkLists(MaxSiteLinks - Len(la)) :
           site = (Seed :> la) @@ (PageA :> lb) @@ (PageB :> <<>>)
    /\ \E bad \in {PageB, External} :
         \E net \in BadNets(bad) :
           link_net = [u \in LinkTargets |-> IF u = bad THEN net ELSE Healthy(u)]
    /\ pc = "seed"
    /\ CrawlerInit
    /\ PageInit
    /\ TechInit
    /\ ProbeInit
    /\ sm_docs = (RootMap :> Doc("not_found", <<>>)) @@ (OtherMap :> Doc("not_found", <<>>))
    /\ sm_stack = <<>>
    /\ sm_call = NoCall
    /\ sm_visited = {}
    /\ sm_fetches = EmptyMap
    /\ sm_validated = <<>>
    /\ sm_log = <<>>

NextLinks == CrawlSeed \/ CrawlLinked

SpecLinks == InitLinks /\ [][NextLinks]_vars

(***************************************************************************)
(* SpecMain: main, the crawl of the seed followed by the writing of the    *)
(* three output files, over the sites whose links are all on the seed and  *)
(* whose sitemap is missing                                                *)
(***************************************************************************)
NextMain == CrawlSeed \/ CrawlLinked \/ WriteOutputs

SpecMain == InitRecrawl /\ [][NextMain]_vars

(***************************************************************************)
(* SpecProbe: up to MaxProbes check_url calls on one TechnicalAnalyzer     *)
(***************************************************************************)
InitProbe ==
    /\ NoSite
    /\ CrawlerInit
    /\ PageInit
    /\ TechInit
    /\ ProbeInit
    /\ SitemapIdle

NextProbe == Probe

SpecProbe == InitProbe /\ [][NextProbe]_vars

(***************************************************************************)
(* SpecSitemap: one validate_sitemap(domain) call tree, as crawl_site      *)
(* starts it (line 567), over every assignment of documents to the         *)
(* sitemap URLs with at most MaxSitemapLocs <loc> elements.                *)
(* SpecSitemapFair adds that a running call keeps running: the crawl is    *)
(* one thread and every request has a timeout.                             *)
(***************************************************************************)
InitSitemap ==
    /\ NoSite
    /\ CrawlerInit
    /\ PageInit
    /\ TechInit
    /\ ProbeInit
    /\ \E r \in Docs(MaxSitemapLocs) :
         \E o \in IF r.kind = "index" THEN Docs(MaxSitemapLocs - Len(r.locs))
                  ELSE {Doc("not_found", <<>>)} :
           \E pa \in LeafDocs :
             sm_docs = (RootMap :> r) @@ (OtherMap :> o) @@
                       (LeafPosts :> pa) @@ (LeafPages :> Doc("urlset", <<>>))
    /\ sm_stack = <<>>
    /\ sm_call = RootDomain
    /\ sm_visited = {}
    /\ sm_fetches = EmptyMap
    /\ sm_validated = <<>>
    /\ sm_log = <<>>

NextSitemap == SmEnter \/ SmNextLoc \/ SmReturn

SpecSitemap == InitSitemap /\ [][NextSitemap]_vars

SpecSitemapFair == SpecSitemap /\ WF_vars(NextSitemap)

(***************************************************************************)
(* SpecMeta: extract_metadata on the pages of MetaUrls, one after the      *)
(* other, on one SiteCrawler                                               *)
(***************************************************************************)
InitMeta ==
    /\ NoSite
    /\ CrawlerInit
    /\ PageInit
    /\ TechInit
    /\ ProbeInit
    /\ SitemapIdle

NextMeta == ExtractMetadata

SpecMeta == InitMeta /\ [][NextMeta]_vars

(***************************************************************************)
(* SpecIndex: check_indexability on the pages of MetaUrls, one after the   *)
(* other, after get_robots_txt has stored the robots.txt of the site       *)
(***************************************************************************)
InitIndex ==
    /\ NoSite
    /\ CrawlerInit
    /\ title_tracking = EmptyMap
    /\ meta_desc_tracking = EmptyMap
    /\ content_tracking = EmptyMap
    /\ crawl_issues = EmptyMap
    /\ canonical_issues = EmptyMap
    /\ structured_data = StructuredDataInit
    /\ robots_txt_content \in RobotsChoices
    /\ analysed = <<>>
    /\ verdicts = <<>>
    /\ TechInit
    /\ ProbeInit
    /\ SitemapIdle

NextIndex == CheckIndexability

SpecIndex == InitIndex /\ [][NextIndex]_vars

(***************************************************************************)
(* Properties of the crawl (Spec)                                          *)
(***************************************************************************)
\* every URL that is a source or a target of a recorded link
GraphPages == DOMAIN internal_links \cup UNION {internal_links[k] : k \in DOMAIN internal_links}

\* C3: after a crawl the seed has depth 0 and every other URL of the depth
\* mapping has the depth of the page on which it was first discovered, plus
\* one; no URL other than the seed ends with depth 0.
C3_DepthIsDiscovererPlusOne ==
    pc = "done" =>
        /\ Seed \in DOMAIN page_depths => page_depths[Seed] = 0
        /\ \A u \in DOMAIN page_depths \ {Seed} :
              /\ page_depths[u] # 0
              /\ u \in DOMAIN first_found_on
              /\ page_depths[u] = page_depths[first_found_on[u]] + 1

\* C4: once a URL has an entry in the depth mapping, no later step of the
\* crawl changes that entry.
C4_DepthAssignedOnce ==
    [][\A u \in DOMAIN page_depths :
          u \in DOMAIN page_depths' /\ page_depths'[u] = page_depths[u]]_vars

\* C5: in every state, no URL of the orphan set has a non-empty inbound-link
\* set.
C5_OrphansHaveNoInbound ==
    \A u \in orphan_pages : Get(inbound_links, u) = {}

\* C6: when the traversal has completed, every page of the link graph whose
\* inbound-link set is empty is in the orphan set.
C6_EmptyInboundIsOrphan ==
    pc = "done" =>
        \A u \in GraphPages : Get(inbound_links, u) = {} => u \in orphan_pages

\* C6 witness: a crawl has completed in which a page other than the seed is
\* in the graph with no inbound link, and is an orphan.
C6_Witness ==
    /\ pc = "done"
    /\ \E u \in GraphPages \ {Seed} :
          Get(inbound_links, u) = {} /\ u \in orphan_pages

\* C18: within one crawl the sitemap of the domain is fetched once, however
\* many pages crawl_site processes, and no sitemap issue is appended twice.
C18_SitemapValidatedOnce ==
    /\ Count(sm_fetches, RootMap) <= 1
    /\ \A i, j \in DOMAIN sitemap_issues : sitemap_issues[i] = sitemap_issues[j] => i = j

\* the in-scope pages the seed links to
LinkedFromSeed ==
    {h \in Range(site[Seed]) :
        ~UrljoinRaises(h) /\ ~Skipped(h) /\ IsInternal(h, Host(Seed))}

\* C19: only the seed and the in-scope pages linked from the seed are ever
\* passed to the page fetcher.
C19_FetchesWithinTwoLevels ==
    fetched \subseteq {Seed} \cup LinkedFromSeed

\* the crawl_site calls that went past the visited test
Entered == {i \in DOMAIN calls : ~calls[i].skipped}

\* the last crawl_site call found its URL in the visited set
SkippedStep ==
    /\ Len(calls') = Len(calls) + 1
    /\ calls'[Len(calls')].skipped

\* C20: a crawl_site call on a URL of the visited set changes no session
\* state; no URL is analysed twice and no URL is twice in the result tree.
C20_VisitedUrlSkipped ==
    /\ [](\A i, j \in Entered : calls[i].url = calls[j].url => i = j)
    /\ [](\A i, j \in DOMAIN analysed : analysed[i].url = analysed[j].url => i = j)
    /\ [][SkippedStep =>
             UNCHANGED <<graphVars, trackVars, canonical_issues, verdicts, results,
                         linked_pages, summaries, fetched, fetch_count, visited, techVars, probeVars,
                         sm_fetches, robots_txt_content>>]_vars

\* C20 witness: after the seed and a linked page were analysed, crawl_site
\* was called again on one of them and skipped it.
C20_Witness ==
    /\ Len(calls) = 3
    /\ calls[3].skipped
    /\ Len(analysed) = 2
    /\ Cardinality(DOMAIN results) = 2

\* the number of crawl_site calls made on url
CallsOn(url) == Cardinality({i \in DOMAIN calls : calls[i].url = url})

\* the seed was analysed and the crawl has returned
SeedAnalysed == pc = "done" /\ Seed \in DOMAIN results /\ results[Seed] = "full"

C30_VisitedHasDepth ==
    \A i \in DOMAIN calls :
        /\ calls[i].nodepth = {}
        /\ calls[i].traversed \subseteq DOMAIN page_depths
        /\ calls[i].reported_depth # <<-1>>

\* C30 witness: the traversal started on the seed visited /a and /b, and the
\* one started on a linked page visited another page as well; each crawled
\* page reported a depth.
C30_Witness ==
    /\ Len(calls) = 2
    /\ calls[1].traversed = Pages
    /\ Cardinality(calls[2].traversed) >= 2
    /\ calls[1].reported_depth = <<0>>
    /\ calls[2].reported_depth # <<>>
    /\ Pages \subseteq DOMAIN page_depths

\* the keys and the members of the outbound and of the inbound map
InGraph ==
    DOMAIN internal_links \cup UNION {internal_links[k] : k \in DOMAIN internal_links}
    \cup DOMAIN inbound_links \cup UNION {inbound_links[k] : k \in DOMAIN inbound_links}

\* C33: the outbound and the inbound map mirror each other: in every state
\* v is in the outbound set of u if and only if u is in the inbound set of v.
C33_MapsMirrorEachOther ==
    \A u, v \in InGraph \cup Pages :
        v \in Get(internal_links, u) <=> u \in Get(inbound_links, v)

\* C33 witness: the crawl of a site on which the seed links to itself and to
\* /a, and /a back to the seed, has returned; each link is in both maps.
C33_Witness ==
    /\ pc = "done"
    /\ Get(internal_links, Seed) = {Seed, PageA}
    /\ Get(internal_links, PageA) = {Seed}
    /\ Get(inbound_links, Seed) = {Seed, PageA}
    /\ Get(inbound_links, PageA) = {Seed}
    /\ Cardinality(Entered) = 2

\* C38: in the linking metrics the counts of the depth distribution sum to
\* total_pages: every key of the outbound map has a depth >= 0 in the depth
\* mapping, so none is left out of the distribution.
C38_DistributionCoversAllPages ==
    /\ \A u \in DOMAIN internal_links : DepthOf(page_depths, u) >= 0
    /\ \A i \in DOMAIN calls :
          \A m \in Range(calls[i].linking_metrics) :
              SumOver(m.depth_distribution, DOMAIN m.depth_distribution) = m.total_pages

\* C38 witness: the seed links to /a, /a to /b and /b back to /a; the
\* metrics computed for the seed count three pages, one at each of the
\* depths 0, 1 and 2.
C38_Witness ==
    /\ Len(calls) >= 1
    /\ calls[1].linking_metrics # <<>>
    /\ calls[1].linking_metrics[1].total_pages = 3
    /\ calls[1].linking_metrics[1].depth_distribution = (0 :> 1) @@ (1 :> 1) @@ (2 :> 1)
    /\ calls[1].linking_metrics[1].total_internal_links = 3

\* C37: each URL is passed to the page fetcher at most once in a crawl.
C37_FetchedAtMostOnce ==
    \A u \in DOMAIN fetch_count : fetch_count[u] <= 1

\* the crawl_site calls whose page fetch returned the page
Loaded == {i \in DOMAIN calls : calls[i].out \notin {"unavailable", "skipped"}}

\* C24: no failure on malformed input leaves the component it occurs in:
\* no extract_metadata call of the crawl ends with an exception, and every
\* page that was fetched is analysed to the end and gets the full result.
C24_FailuresStayInComponent ==
    /\ \A i \in DOMAIN analysed : ~analysed[i].raised
    /\ \A i \in Loaded : results[calls[i].url] = "full"

(***************************************************************************)
(* Properties of the link loops (SpecScope)                                *)
(***************************************************************************)
\* the links of page u with the hrefs that do not resolve left out
Resolving(u) == SelectSeq(site[u], LAMBDA h : ~UrljoinRaises(h))

\* the in-scope links among them, and those that are probed
InScope(u) == {h \in Range(Resolving(u)) : ~Skipped(h) /\ IsInternal(h, Host(u))}

ProbedOf(u) == {k \in DOMAIN Resolving(u) : ~Skipped(Resolving(u)[k])}

\* the number of check_url calls of the first n crawl_site calls, had the
\* hrefs that do not resolve been absent from the pages
RECURSIVE ProbesOf(_)
ProbesOf(n) ==
    IF n = 0 THEN 0
    ELSE ProbesOf(n - 1)
         + (IF calls[n].out = "analyzed" THEN Cardinality(ProbedOf(calls[n].url)) ELSE 0)

RootHosts == {Host(Seed), "www." \o Host(Seed)}

\* C25: every key and every member of the outbound and inbound maps, and
\* every page the traversal fetches, is on the crawl root's host or on
\* 'www.' + that host; no URL of another host and no mailto link is among
\* them.
C25_EdgesStayInScope ==
    \A u \in InGraph \cup fetched : Host(u) \in RootHosts

(***************************************************************************)
(* Properties of the traversal of cyclic sites (SpecCycle)                 *)
(***************************************************************************)
\* the calls of the i-th traversal that went past the visited test on url
ExpansionsOf(i, url) ==
    {k \in DOMAIN calls[i].expanded : calls[i].expanded[k].url = url}

\* C36: on every finite site whose in-scope links form cycles the crawl
\* returns, and within one link-graph traversal each URL is expanded at most
\* once.
C36_CyclicSiteTerminates ==
    /\ <>(pc = "done")
    /\ [](\A i \in DOMAIN calls :
            \A u \in Pages : Cardinality(ExpansionsOf(i, u)) <= 1)

\* C36 witness: the crawl of a site on which the seed links to /a, /a to /b
\* and /b back to /a has returned; the traversal from the seed expanded the
\* three pages, each once, and the one from /a expanded /a and /b.
C36_Witness ==
    /\ pc = "done"
    /\ site[Seed] = <<PageA>>
    /\ site[PageA] = <<PageB>>
    /\ site[PageB] = <<PageA>>
    /\ calls[1].expanded = <<[url |-> Seed, depth |-> 0], [url |-> PageA, depth |-> 1],
                             [url |-> PageB, depth |-> 2]>>
    /\ Len(calls) = 2
    /\ Len(calls[2].expanded) = 2

(***************************************************************************)
(* Properties of the analyzer's records after a crawl (SpecLinks)          *)
(***************************************************************************)
\* C32: after a crawl no URL is more than once in the broken-link list of a
\* status key or of the 'error' key, also when a link occurs several times
\* on one page or on several crawled pages.
C32_BrokenLinksDeduplicated ==
    pc = "done" =>
        \A key \in DOMAIN broken_links :
            \A i, j \in DOMAIN broken_links[key] :
                broken_links[key][i].url = broken_links[key][j].url => i = j

\* the number of stored redirect-chain records whose loop flag is set
LoopRecords == Cardinality({u \in DOMAIN redirect_chains : redirect_chains[u].has_loop})

\* C34: in every state the redirect-loop counter is the number of stored
\* redirect-chain records whose loop flag is set, also when a URL is probed
\* more than once in the crawl.
C34_LoopCounterMatchesRecords ==
    redirect_loops = LoopRecords

(***************************************************************************)
(* Properties of main (SpecMain)                                           *)
(***************************************************************************)
\* the crawl_site calls whose page fetch returned None
Unfetched == {i \in DOMAIN calls : calls[i].out = "unavailable"}

\* C22: when the page fetch returns none for a URL, the seed or a linked
\* page, the result crawl_site returns for it carries the technical analysis
\* and the issue counts and no page info, and main writes its outputs from
\* the seed's result without failing.
C22_PartialResultOnMissingFetch ==
    /\ \A i \in Unfetched :
          /\ calls[i].url \in DOMAIN results
          /\ {"technical_analysis", "crawl_issues_summary"}
                 \subseteq FilledKeys(results[calls[i].url])
          /\ "page_info" \notin ResultKeys(results[calls[i].url])
    /\ outputs # "KeyError"

\* C35: the issue counts of the seed's result, which main writes to the
\* issues file, cover every page analysed in the crawl: they are the session
\* counters as they stand when the crawl has returned, an issue found on a
\* depth-1 page included.
C35_SeedSummaryCoversCrawl ==
    outputs = "written" =>
        /\ \A k \in SummaryKeys :
              summaries[Seed].crawl_issues_summary[k] = Count(crawl_issues, k)
        /\ summaries[Seed].canonical_issues_summary = canonical_issues

(***************************************************************************)
(* Properties of the sitemap validator (SpecSitemap, SpecSitemapFair)      *)
(***************************************************************************)
\* C1: validate_sitemap terminates on every assignment of documents,
\* cyclic references included, and no sitemap URL is fetched twice within
\* one call tree.
C1_ValidationTerminates ==
    /\ <>SmDone
    /\ [](\A u \in DOMAIN sm_fetches : sm_fetches[u] <= 1)

\* C1 witness: the root index references the other domain's sitemap, which
\* is an index referencing the root domain again; the call tree has
\* returned and fetched each of the two once.
C1_Witness ==
    /\ SmDone
    /\ sm_docs[RootMap].kind = "index"
    /\ OtherMap \in Range(sm_docs[RootMap].locs)
    /\ sm_docs[OtherMap].kind = "index"
    /\ \E l \in Range(sm_docs[OtherMap].locs) : Host(l) = RootDomain
    /\ Count(sm_fetches, RootMap) = 1
    /\ Count(sm_fetches, OtherMap) = 1

IssuesFor(url) == {i \in DOMAIN sitemap_issues : sitemap_issues[i].arg = url}

\* C2: when the root sitemap is an index of two sitemaps, one answering 404
\* and one a 200 urlset, validation ends with exactly one issue for the 404
\* sitemap, and the other one fetched and its entries validated.
C2_OneIssueForMissingLeaf ==
    SmDone =>
        \A bad, good \in SitemapUrls :
            ( /\ sm_docs[RootMap].kind = "index"
              /\ sm_docs[RootMap].locs \in {<<bad, good>>, <<good, bad>>}
              /\ sm_docs[bad].kind = "not_found"
              /\ sm_docs[good].kind = "urlset" )
            => /\ Cardinality(IssuesFor(bad)) = 1
               /\ Count(sm_fetches, good) = 1
               /\ \E i \in DOMAIN sm_validated : sm_validated[i].url = good

\* the records of sm_log for urlsets: the leaf sitemaps that were read
Leaves == {i \in DOMAIN sm_log : sm_log[i].kind = "urlset"}

\* C15: every URL of a leaf sitemap is probed, and every one whose probe
\* returns a status outside {200, 301}, 4xx and 5xx included, gets a
\* sitemap issue naming it.
C15_BadStatusFlagged ==
    \A i \in Leaves :
        \A k \in DOMAIN sm_log[i].entries :
            /\ k <= sm_log[i].processed
            /\ ( sm_log[i].nets[k].kind = "response"
                 /\ sm_log[i].nets[k].status_code \notin {200, 301} )
               => Issue("Invalid status for sitemap URL", sm_log[i].entries[k].loc)
                      \in Range(sm_log[i].appended)

\* the issues the logged calls appended, in order
RECURSIVE AppendedUpTo(_)
AppendedUpTo(n) == IF n = 0 THEN <<>> ELSE AppendedUpTo(n - 1) \o sm_log[n].appended

\* C16: a sitemap whose GET is answered with a status other than 200, or
\* with a body that is not XML, gets exactly one issue; none of its URLs is
\* probed, no sitemap is visited from it, and the call returns.
C16_FailedFetchOneIssue ==
    /\ sitemap_issues = AppendedUpTo(Len(sm_log))
    /\ \A i \in DOMAIN sm_log :
          sm_log[i].kind \in {"not_found", "bad_xml"} =>
              /\ Len(sm_log[i].appended) = 1
              /\ sm_log[i].processed = 0
              /\ \A f \in DOMAIN sm_stack : sm_stack[f].url # sm_log[i].url
              /\ \A j \in DOMAIN sm_validated : sm_validated[j].url # sm_log[i].url

\* C16 witness: the root index references the other domain's sitemap, whose
\* body is not XML; validation has returned with that single issue.
C16_Witness ==
    /\ SmDone
    /\ Len(sm_log) = 2
    /\ sm_log[2].url = OtherMap
    /\ sm_log[2].kind = "bad_xml"
    /\ sitemap_issues = <<Issue("Invalid XML in sitemap", "ParseError")>>
    /\ broken_links = EmptyMap

PriorityMessages ==
    {"Invalid priority value in sitemap", "Invalid priority format in sitemap",
     "Unexpected error processing sitemap"}

\* C17: an entry of a leaf sitemap with an unparsable lastmod, or with a
\* priority that is non-numeric, empty or outside [0, 1], gets a sitemap
\* issue, and every entry of the sitemap is validated.
C17_BadEntryFlaggedAndSkipped ==
    \A i \in Leaves :
        /\ sm_log[i].processed = Len(sm_log[i].entries)
        /\ \A k \in DOMAIN sm_log[i].entries :
              LET entry == sm_log[i].entries[k]
              IN  /\ entry.lastmod = "invalid"
                      => Issue("Invalid lastmod format in sitemap", entry.loc)
                             \in Range(sm_log[i].appended)
                  /\ entry.priority \in {"out_of_range", "not_a_number", "empty"}
                      => \E m \in Range(sm_log[i].appended) : m.msg \in PriorityMessages

(***************************************************************************)
(* Properties of the URL prober (SpecProbe)                                *)
(***************************************************************************)
LoopChain == <<LoopUrl, PageA, LoopUrl>>

\* the last check_url call was a request for LoopUrl answered through the
\* redirect chain LoopUrl -> PageA -> LoopUrl
ProbedLoopChain ==
    /\ last_probe.url = LoopUrl
    /\ last_probe.net.kind = "response"
    /\ Chain(last_probe.net) = LoopChain

\* C10: a probe whose redirect chain is /loop -> /a -> /loop stores a chain
\* record for the URL with the loop flag set, increments the redirect-loop
\* counter by exactly 1 and returns the final response to the caller.
C10_LoopRecordedNotFatal ==
    ProbedLoopChain =>
        /\ LoopUrl \in DOMAIN redirect_chains
        /\ redirect_chains[LoopUrl].chain = LoopChain
        /\ redirect_chains[LoopUrl].has_loop
        /\ redirect_loops = last_probe.loops_before + 1
        /\ last_probe.ret = last_probe.net

\* C10 witness: such a probe has been made, after an earlier probe.
C10_Witness ==
    /\ ProbedLoopChain
    /\ probes = 2
    /\ redirect_loops >= 1
    /\ last_probe.ret.kind = "response"

\* some URL occurs at two positions of the sequence
Revisits(chain) == \E i, j \in DOMAIN chain : i < j /\ chain[i] = chain[j]

\* C11 as stated: the loop flag of every recorded redirect chain is true if
\* and only if some URL occurs twice among the chain elements that precede
\* the chain's final element.
C11_LoopFlagBeforeFinal ==
    \A u \in DOMAIN redirect_chains :
        LET chain == redirect_chains[u].chain
        IN  redirect_chains[u].has_loop <=> Revisits(SubSeq(chain, 1, Len(chain) - 1))

\* C11 amended: the loop flag of every recorded redirect chain is true if
\* and only if some URL occurs twice among the chain's elements, the final
\* element included.
C11_LoopFlagWholeChain ==
    \A u \in DOMAIN redirect_chains :
        redirect_chains[u].has_loop <=> Revisits(redirect_chains[u].chain)

\* C11 witness: a chain that revisits a URL only at its final element is
\* recorded with the flag set, next to a chain without a revisit.
C11_Witness ==
    /\ LoopUrl \in DOMAIN redirect_chains
    /\ redirect_chains[LoopUrl].chain = <<LoopUrl, LoopUrl>>
    /\ redirect_chains[LoopUrl].has_loop
    /\ PageA \in DOMAIN redirect_chains
    /\ redirect_chains[PageA].chain = <<PageA, LoopUrl>>
    /\ ~redirect_chains[PageA].has_loop

\* C29: every stored redirect chain has at least one element, its hop count
\* is its length minus one and at least 1, and its loop flag is set if and
\* only if it has fewer distinct URLs than elements.
C29_StoredChainShape ==
    \A u \in DOMAIN redirect_chains :
        LET r == redirect_chains[u]
        IN  /\ Len(r.chain) >= 1
            /\ r.count = Len(r.chain) - 1
            /\ r.count >= 1
            /\ r.has_loop <=> (Cardinality(Range(r.chain)) < Len(r.chain))

\* C29 witness: a chain of two hops that returns to its first URL is stored
\* with the flag set, next to a chain of one hop without a repeated URL,
\* stored by a probe that ended in 404.
C29_Witness ==
    /\ LoopUrl \in DOMAIN redirect_chains
    /\ redirect_chains[LoopUrl].chain = LoopChain
    /\ redirect_chains[LoopUrl].count = 2
    /\ redirect_chains[LoopUrl].has_loop
    /\ PageA \in DOMAIN redirect_chains
    /\ redirect_chains[PageA].count = 1
    /\ redirect_chains[PageA].final_status = 404
    /\ ~redirect_chains[PageA].has_loop

\* the entries under the 'error' key of a broken-link record
ErrorEntries(bl) == IF ErrorKey \in DOMAIN bl THEN bl[ErrorKey] ELSE <<>>

\* the network fails the first request and answers a later one of the
\* StopAfterAttempt requests
TransientFailure(plan) ==
    /\ Len(plan) > 1
    /\ Len(plan) <= StopAfterAttempt
    /\ plan[Len(plan)].kind = "response"

\* C12: when the network fails a probe's first request and answers a later
\* one of its 3 attempts, the probe returns that response and appends no
\* 'error' broken-link entry.
C12_TransientFailureRetried ==
    (last_probe.url # "" /\ TransientFailure(last_probe.plan)) =>
        /\ last_probe.ret = last_probe.plan[Len(last_probe.plan)]
        /\ last_probe.attempts = Len(last_probe.plan)
        /\ ErrorEntries(broken_links) = ErrorEntries(last_probe.before.broken_links)

\* every request the probe issued failed
EveryAttemptFailed ==
    /\ last_probe.url # ""
    /\ \A k \in 1..last_probe.attempts : last_probe.plan[k].kind = "error"

\* C13: a probe all of whose attempts fail returns no response, raises
\* nothing, and appends exactly one entry, for this call, under 'error'.
C13_PersistentFailureRecordedOnce ==
    EveryAttemptFailed =>
        /\ last_probe.ret = NoResponse
        /\ ErrorEntries(broken_links)
              = Append(ErrorEntries(last_probe.before.broken_links),
                       [url |-> last_probe.url, is_internal |-> last_probe.is_internal,
                        error |-> "RequestException"])
        /\ \A k \in DOMAIN broken_links \ {ErrorKey} :
              k \in DOMAIN last_probe.before.broken_links
              /\ broken_links[k] = last_probe.before.broken_links[k]

\* C13 witness: the network fails every request of the second probe, after a
\* first probe that failed as well; two 'error' entries are on record.
C13_Witness ==
    /\ probes = 2
    /\ last_probe.plan = Failures(StopAfterAttempt)
    /\ last_probe.ret = NoResponse
    /\ Len(ErrorEntries(broken_links)) = 2

\* C14: a probe whose final status is >= 400 appends [url, is_internal,
\* redirect chain recorded for the URL or none] under that status and
\* nothing else; a probe whose final status is < 400 leaves the broken-link
\* record as it was.
C14_BrokenLinkPerBadStatus ==
    (last_probe.url # "" /\ last_probe.net.kind = "response") =>
        LET status == last_probe.net.status_code
            before == last_probe.before.broken_links
            key    == StatusKey(status)
            chain  == IF last_probe.url \in DOMAIN redirect_chains
                      THEN <<redirect_chains[last_probe.url]>> ELSE <<>>
        IN  IF status >= 400
            THEN /\ DOMAIN broken_links = DOMAIN before \cup {key}
                 /\ broken_links[key]
                       = Append(IF key \in DOMAIN before THEN before[key] ELSE <<>>,
                                [url |-> last_probe.url,
                                 is_internal |-> last_probe.is_internal,
                                 redirect_chain |-> chain])
                 /\ \A k \in DOMAIN before \ {key} : broken_links[k] = before[k]
            ELSE broken_links = before

\* C14 witness: a probe of an internal URL ended in 404 through a redirect
\* and its entry carries the chain; an earlier probe had ended in 200.
C14_Witness ==
    /\ probes = 2
    /\ last_probe.before.broken_links = EmptyMap
    /\ last_probe.net.status_code = 404
    /\ Len(last_probe.net.history) = 1
    /\ last_probe.is_internal
    /\ Len(broken_links[StatusKey(404)]) = 1
    /\ broken_links[StatusKey(404)][1].redirect_chain # <<>>
    /\ broken_links[StatusKey(404)][1].redirect_chain[1].final_status = 404

(***************************************************************************)
(* Properties of the page analysis (SpecMeta, SpecIndex)                   *)
(***************************************************************************)
\* the calls on a page that has a <title>, and the titles of those pages
Titled == {i \in DOMAIN analysed : analysed[i].page.title # NoText}

TitlesSeen == {analysed[i].page.title : i \in Titled}

\* the URLs of the pages with title t, in the order of the calls
RECURSIVE UrlsWithTitle(_, _)
UrlsWithTitle(t, n) ==
    IF n = 0 THEN <<>>
    ELSE UrlsWithTitle(t, n - 1) \o
         (IF analysed[n].page.title = t THEN <<analysed[n].url>> ELSE <<>>)

\* C7: after any sequence of extract_metadata calls on distinct URLs the
\* duplicate-title counter is the number of URLs that had a title minus the
\* number of distinct titles, and each title's tracker entry lists the URLs
\* that had it.
C7_DuplicateTitlesCounted ==
    /\ Count(crawl_issues, "duplicate_titles")
           = Cardinality(Titled) - Cardinality(TitlesSeen)
    /\ \A t \in TitlesSeen :
           t \in DOMAIN title_tracking
           /\ title_tracking[t] = UrlsWithTitle(t, Len(analysed))

\* pages_with_schema right after the i-th call
WithSchemaAfter(i) ==
    IF i < Len(analysed) THEN analysed[i + 1].with_schema_before
    ELSE structured_data.page_coverage.pages_with_schema

\* C8: for a page one of whose JSON-LD scripts is a JSON array of schema
\* objects, the page URL is in the catalog entry of each element's type and
\* pages_with_schema went up by exactly one for the page.
C8_ArrayElementsClassified ==
    \A i \in DOMAIN analysed :
        \A k \in DOMAIN analysed[i].page.json_ld :
            LET script == analysed[i].page.json_ld[k]
            IN  script.kind = "array" =>
                  /\ \A t \in Range(script.types) :
                        analysed[i].url \in Range(structured_data.schema_types[Bucket(t)])
                  /\ WithSchemaAfter(i) = analysed[i].with_schema_before + 1

\* the catalog right after the i-th call
CatalogAfter(i) ==
    IF i < Len(analysed) THEN analysed[i + 1].sd_before ELSE structured_data

\* by how much the i-th call raised the count of style m
Counted(i, m) ==
    CatalogAfter(i).implementation_methods[m].count
        - analysed[i].sd_before.implementation_methods[m].count

\* the style of highest priority found on the page, "" if there is none
FirstStyle(page) ==
    IF page.json_ld # <<>> THEN "json_ld"
    ELSE IF page.microdata # <<>> THEN "microdata"
    ELSE IF page.rdfa # <<>> THEN "rdfa"
    ELSE ""

\* C26: a page raises the count of exactly the first style found on it, in
\* the order JSON-LD, microdata, RDFa, by exactly 1, and no other count; a
\* page with a JSON-LD script, even an unparsable one, counts as JSON-LD.
C26_OneStylePerPage ==
    \A i \in DOMAIN analysed :
        \A m \in Methods :
            Counted(i, m) = IF m = FirstStyle(analysed[i].page) THEN 1 ELSE 0

\* C26 witness: a page with an unparsable JSON-LD script and a microdata
\* item was counted as JSON-LD only, then a page with a microdata and an
\* RDFa item as microdata only.
C26_Witness ==
    /\ Len(analysed) = 2
    /\ analysed[1].page.json_ld = <<Script("invalid", <<>>)>>
    /\ analysed[1].page.microdata # <<>>
    /\ analysed[2].page.json_ld = <<>>
    /\ analysed[2].page.microdata # <<>>
    /\ analysed[2].page.rdfa # <<>>
    /\ structured_data.implementation_methods["json_ld"].count = 1
    /\ structured_data.implementation_methods["microdata"].count = 1
    /\ structured_data.implementation_methods["rdfa"].count = 0

\* the JSON-LD scripts of a page that json.loads rejects, and the others
Unparsable(page) == {k \in DOMAIN page.json_ld : page.json_ld[k].kind = "invalid"}

Parsable(page) == DOMAIN page.json_ld \ Unparsable(page)

\* C27: for a page with JSON-LD scripts that fail to parse, the findings
\* returned have the status invalid, the page URL was appended to the
\* JSON-LD invalid list and the parser error to the error list once per
\* such script, the page's other scripts were processed, page coverage was
\* updated and the call returned.
C27_ParseFailureRecordedNotFatal ==
    \A i \in DOMAIN analysed :
        LET page   == analysed[i].page
            before == analysed[i].sd_before
            after  == CatalogAfter(i)
            n      == Cardinality(Unparsable(page))
        IN  n > 0 =>
              /\ analysed[i].ret.structured_data.validation_status = "invalid"
              /\ after.implementation_methods["json_ld"].invalid
                    = before.implementation_methods["json_ld"].invalid
                        \o [k \in 1..n |-> analysed[i].url]
              /\ after.implementation_methods["json_ld"].errors
                    = before.implementation_methods["json_ld"].errors
                        \o [k \in 1..n |-> "JSONDecodeError"]
              /\ ~analysed[i].raised
              /\ Len(after.implementation_methods["json_ld"].valid)
                    = Len(before.implementation_methods["json_ld"].valid)
                        + Cardinality(Parsable(page))
              /\ after.page_coverage.total_pages = before.page_coverage.total_pages + 1

\* C27 for the pages none of whose JSON-LD scripts is an array
C27_WithoutArrays ==
    \A i \in DOMAIN analysed :
        LET page   == analysed[i].page
            before == analysed[i].sd_before
            after  == CatalogAfter(i)
            n      == Cardinality(Unparsable(page))
        IN  (n > 0 /\ \A k \in DOMAIN page.json_ld : page.json_ld[k].kind # "array") =>
              /\ analysed[i].ret.structured_data.validation_status = "invalid"
              /\ after.implementation_methods["json_ld"].invalid
                    = before.implementation_methods["json_ld"].invalid
                        \o [k \in 1..n |-> analysed[i].url]
              /\ ~analysed[i].raised
              /\ Len(after.implementation_methods["json_ld"].valid)
                    = Len(before.implementation_methods["json_ld"].valid)
                        + Cardinality(Parsable(page))
              /\ after.page_coverage.total_pages = before.page_coverage.total_pages + 1

\* C28: after the analyzer was invoked on n pages, total_pages is n and is
\* the sum of pages_with_schema and the length of pages_without_schema,
\* whatever schema declarations the pages carry.
C28_CoverageCountsEveryPage ==
    LET coverage == structured_data.page_coverage
    IN  /\ coverage.total_pages = Len(analysed)
        /\ coverage.total_pages
              = coverage.pages_with_schema + Len(coverage.pages_without_schema)

\* the lines of the robots file that start with 'Disallow:' in any case
DisallowLines ==
    {k \in DOMAIN robots_txt_content :
        robots_txt_content[k].directive \in {"Disallow", "disallow", "DISALLOW"}}

\* path is what the URL ends with
IsSuffixOf(path, url) ==
    \E n \in 0..Len(UrlPieces(url)) :
        \E head \in {SubSeq(UrlPieces(url), 1, n)} : head \o path = UrlPieces(url)

\* C31: is_allowed_by_robots(url) is false if and only if the robots file is
\* not empty and one of its Disallow lines, in any case, carries a non-empty
\* path that the URL ends with; a missing or empty file and an empty path
\* allow the URL.
C31_DisallowSuffixMatch ==
    \A i \in DOMAIN verdicts :
        ~verdicts[i].verdict.robots_txt_allowed
            <=> /\ robots_txt_content # <<>>
                /\ \E k \in DisallowLines :
                      /\ robots_txt_content[k].path # <<>>
                      /\ IsSuffixOf(robots_txt_content[k].path, verdicts[i].url)

\* C31 witness: under a robots file with the lines 'disallow: /' and
\* 'Disallow:' the seed, whose URL ends with '/', was refused and /a allowed.
C31_Witness ==
    /\ Len(verdicts) = 2
    /\ Len(robots_txt_content) = 2
    /\ robots_txt_content[1].path = <<"/">>
    /\ robots_txt_content[2].path = <<>>
    /\ ~verdicts[1].verdict.robots_txt_allowed
    /\ verdicts[2].verdict.robots_txt_allowed

\* the check_indexability calls that returned a verdict
Returned == {i \in DOMAIN verdicts : ~verdicts[i].raised}

\* the canonical link of the i-th page is present: an element with an href
\* that is not empty (line 421)
CanonicalPresent(i) == verdicts[i].page.canonical \notin {NoText, ""}

CanonicalIssueNames ==
    {"missing_canonical", "relative_url", "points_to_different_domain",
     "points_to_different_url"}

\* the shape of the verdict the i-th call returned
CanonicalShape(i) ==
    LET issues == verdicts[i].verdict.canonical_issues
    IN  /\ issues \in {<<>>, <<"missing_canonical">>, <<"points_to_different_url">>,
                       <<"relative_url">>, <<"points_to_different_domain">>,
                       <<"relative_url", "points_to_different_domain">>}
        /\ issues = <<>> <=> verdicts[i].page.canonical = verdicts[i].url
        /\ issues = <<"missing_canonical">> <=> ~CanonicalPresent(i)
        /\ ~verdicts[i].verdict.canonical_self_referencing
              <=> (CanonicalPresent(i) /\ verdicts[i].page.canonical # verdicts[i].url)

\* each session counter is the number of verdicts whose list has the issue
CountersMatchVerdicts ==
    \A k \in CanonicalIssueNames :
        Count(canonical_issues, k)
            = Cardinality({i \in Returned : k \in Range(verdicts[i].verdict.canonical_issues)})

\* C39: the canonical issue list of every verdict is empty (the canonical is
\* the page URL), [missing_canonical], [points_to_different_url] or a
\* non-empty sub-list of [relative_url, points_to_different_domain];
\* canonical_self_referencing is false if and only if a canonical link is
\* present and differs from the page URL; and each session canonical counter
\* is the number of analysed pages whose list contains that issue.
C39_CanonicalVerdictShape ==
    /\ \A i \in Returned : CanonicalShape(i)
    /\ CountersMatchVerdicts

\* C39 for the pages whose canonical href urlparse accepts
C39_ForParsedCanonicals ==
    (\A i \in DOMAIN verdicts : ~verdicts[i].raised) =>
        /\ \A i \in DOMAIN verdicts : CanonicalShape(i)
        /\ CountersMatchVerdicts

\* C9: points_to_different_url is recorded for a page only if no other
\* canonical issue was, and a page whose canonical link is the relative URL
\* /other-page gets exactly the issue list [relative_url].
C9_DifferentUrlOnlyAlone ==
    \A i \in DOMAIN verdicts :
        LET issues == verdicts[i].verdict.canonical_issues
        IN  /\ "points_to_different_url" \in Range(issues)
                => issues = <<"points_to_different_url">>
            /\ verdicts[i].page.canonical = RelativeHref
                => issues = <<"relative_url">>

\* C9 witness: a page with the canonical /other-page has been checked after
\* a page whose canonical points to another page of the site.
C9_Witness ==
    /\ Len(verdicts) = 2
    /\ verdicts[1].page.canonical = PageB
    /\ verdicts[1].verdict.canonical_issues = <<"points_to_different_url">>
    /\ verdicts[2].page.canonical = RelativeHref
    /\ verdicts[2].verdict.canonical_issues = <<"relative_url">>
    /\ ~verdicts[2].verdict.canonical_self_referencing
    /\ Count(canonical_issues, "relative_url") = 1

====
